---- MODULE Spec2Model ----
(***************************************************************************)
(* A model of bolt/src/DWARFRewriter.cpp: the per-unit DIE walk            *)
(* (updateUnitDebugInfo), the pending-ranges conversion state machine      *)
(* (convertPending / addToPendingRanges / flushPendingRanges), the byte    *)
(* patches recorded by convertToRanges and patchLowHigh, and the           *)
(* location-list section assembly (makeFinalLocListsSection).              *)
(*                                                                         *)
(* Several specifications share the variables: Spec (the address ranges of *)
(* subprograms), SpecLoc (location lists), SpecBytes (the patches of       *)
(* convertToRanges for one DIE, over all attribute forms), SpecForms (the  *)
(* same and patchLowHigh on a DIE of any layout), SpecFinal (the steps     *)
(* after the unit tasks), SpecGdb (.gdb_index regeneration), SpecDwp (the  *)
(* split-unit outputs), SpecLock (the tasks, one patcher call a step),     *)
(* SpecBlocks (DIEs with DW_AT_ranges and the ranges cache), SpecNames     *)
(* (getDWOName), SpecSeq (the run with and without the thread pool),       *)
(* SpecWalk (the loop over a unit's entry stream), SpecSub (subprograms   *)
(* with DW_AT_ranges), SpecPkg (the index of the package file), SpecAddr   *)
(* (other DIEs with a low_pc), SpecSplitForms (the same over either form   *)
(* of low_pc in a split unit), SpecRace and SpecRaceFair (the tasks with   *)
(* subprograms and location lists, one lock a step) and SpecMaps (the      *)
(* calls of the tasks on the shared maps).                                 *)
(*                                                                         *)
(* The writers of DebugData.cpp (ranges, addresses, abbreviations,         *)
(* location lists, byte patcher) are not part of DWARFRewriter.cpp; they   *)
(* are modelled from their documented contract.                            *)
(***************************************************************************)
EXTENDS Integers, Sequences, FiniteSets, TLC

\* ------------------------------------------------------------------ bounds
\* Number of compile units of the binary (one task per unit).
NumUnits == 2
\* Cap on the number of DIEs the walks dispatch in one run (all units).
MaxDIEs == 2
\* Number of type units of .debug_types.
NumTypeUnits == 2

Units == 1 .. NumUnits

\* ------------------------------------------------------- program constants
\* Width of DW_FORM_addr (the code asserts getAddressByteSize() == 8).
AddrSize == 8
\* Width of DW_FORM_sec_offset / DW_FORM_data4.
SecOffsetSize == 4
\* AbbrevFieldOffset: where a unit header holds its abbreviation offset.
AbbrevFieldOffset == 6
\* DebugTypesPatcher before finalizeDebugSections creates it.
NoTypesPatcher == [registered |-> FALSE, patches |-> <<>>]
\* NumBytesToFill when high_pc is 8 bytes wide, and when it is data4.
FillEight == 12
FillFour == 8
\* addLE32Patch stores a uint32_t. TLC's integers are 32 bits wide, so the
\* model wraps at 2^16 instead of 2^32; every offset of the model is far
\* below it, and a wrapped (underflowed) value is one at or above 2^15.
U32Modulus == 65536
\* The codes of dwarf::DW_FORM_addr and dwarf::DW_FORM_udata, written as the
\* leading byte(s) of a DW_FORM_indirect value.
DW_FORM_addr == 1
DW_FORM_udata == 15
\* Bytes of one (low, high) pair of the ranges section.
RangeEntrySize == 16
\* Distance between the low_pc fields of two DIEs of the model's input.
DieStride == 32

\* The id of the top-level .debug_info patcher; a split unit's patcher is
\* named by its DWO id, which the model takes to be its skeleton's unit id.
TopPatcher == 0
PatcherIds == {TopPatcher} \cup Units

\* RangesBase = None
NoBase == -1

HighForms == {"DW_FORM_addr", "DW_FORM_data8", "DW_FORM_data4"}
LowForms == {"DW_FORM_addr", "DW_FORM_GNU_addr_index"}

\* An abbreviation declaration of a low_pc/high_pc subprogram: identified by
\* the abbreviation table that owns it (0: the table the top-level units
\* share, u: the table of unit u's split unit) and its high_pc form.
Decls == [tbl : PatcherIds, hi : {"DW_FORM_data4", "DW_FORM_data8"}]

\* The declaration of a unit DIE: of the abbreviation table tbl, with a
\* low_pc/high_pc pair of high_pc form hi, or ("none") with DW_AT_ranges.
UnitDecls ==
  [tbl : PatcherIds, hi : {"DW_FORM_data4", "DW_FORM_data8", "none"},
   tag : {"DW_TAG_compile_unit"}]
UnitDeclOf(p, hi) == [tbl |-> p, hi |-> hi, tag |-> "DW_TAG_compile_unit"]

\* The declaration of a subprogram or block with DW_AT_ranges ("none": no DW_AT_high_pc)
\* or, for a block, with a low_pc/high_pc pair.
RangesDecls ==
  [tbl : PatcherIds, hi : {"DW_FORM_data4", "none"},
   tag : {"DW_TAG_subprogram", "DW_TAG_lexical_block"}]
RangesDeclOf(die) == [tbl |-> die.tbl, hi |-> die.hi, tag |-> die.tag]


\* --------------------------------------------------------------- variables
VARIABLES
  parallel,                \* !(opts::NoThreads || opts::DeterministicDebugInfo)
  phase,                   \* position of updateDebugInfo after the unit tasks
  pc,                      \* position of each unit's task (processUnitDIE)
  SplitCU,                 \* unit u is a skeleton whose split unit was loaded
  walkDwo,                 \* task u is walking its split unit (else the unit itself)
  cur,                     \* the DIE task u is handling (index into dies[u]), 0: none
  dies,                    \* unit -> the subprogram DIEs its task dispatched (input data)
  lowpcDies,               \* unit -> the other DIEs with a low_pc its task dispatched
  visited,                 \* number of DIEs dispatched so far, all units
  CriticalSectionMutex,    \* owner of the static CriticalSectionMutex, 0: free
  flushIdx,                \* loop position inside convertPending
  ConvertedRangesAbbrevs,  \* set of converted declarations
  PendingRanges,           \* declaration -> sequence of (DIE, range)
  Patches,                 \* patcher id -> list of recorded patches
  RangeBase,               \* patcher id -> SimpleBinaryPatcher::RangeBase
  RangesSection,           \* DebugRangesSectionWriter: appended range lists
  AbbrevPatches,           \* DebugAbbrevWriter: declaration -> attribute patches
  AddrTable,               \* DebugAddrWriter: DWO id -> set of <<index, address>>
  locDies,                 \* unit -> the location-list DIEs its task dispatched
  LocWriterSize,           \* LocListWritersByCU: key -> bytes its writer holds
  LocListDebugInfoPatches, \* deferred patches of the top-level units
  DwoLocListDebugInfoPatches, \* DWO id -> deferred patches of that split unit
  LocOrder,                \* order in which the non-empty writers were concatenated
  SectionOffsetByCU,       \* key -> offset of its writer's bytes in .debug_loc
  LoclistFinalized,        \* split units whose writer has run finalizePatches()
  bytesCase,               \* one DIE handed to convertToRanges (SpecBytes)
  opts,                    \* the command-line options read more than once
  NDEBUG,                  \* the build compiles assert() out
  DWOId,                   \* unit -> Unit->getDWOId(), NoDWOId: none
  StrSection,              \* DebugStrWriter: bytes added to .debug_str
  CUAddressRanges,         \* DebugARangesSectionWriter: CU offset -> ranges
  Registered,              \* names of the sections registered so far, in order
  Exit,                    \* "none", or how the process was ended
  DWOFiles,                \* DWO ids whose standalone output file was kept
  DWP,                     \* the package file: index entries, kept or not
  GdbIndex,                \* contents of the input .gdb_index, <<>>: none
  NewGdbIndex,             \* contents of the regenerated .gdb_index
  DebugInfoPatcherMutex,   \* owner of DebugInfoPatcherMutex, 0: free
  appending,               \* task -> the appends it has queued and the one it is inside of
  CachedRanges,            \* task -> the CachedRanges map of the walk it is in
  blockDies,               \* unit -> the DIEs with DW_AT_ranges and the blocks dispatched
  DWONames,                \* skeleton -> the DW_AT_GNU_dwo_name of its unit DIE (input data)
  NameToIndexMap,          \* DWO name -> the dedup index the next unit of that name gets
  DWOIdToName,             \* DWO id -> the output name getDWOName has given it
  nameCalls,               \* the calls of getDWOName so far: DWO id and returned name
  entryWalk,               \* unit -> its entry stream (input data) and the loop's DIEOffset, Depth
  errs,                    \* the diagnostics written to errs(), in order
  UnitAbbrevs,             \* unit -> number of addUnitAbbreviations(Unit) calls for it
  NormalUnits,             \* the units of normal_units() as finalizeDebugSections read them
  DebugTypesPatcher,       \* the patcher of .debug_types: registered or not, its patches
  DWOSections,             \* unit -> the sections of its split unit's file (input data)
  PkgIndex,                \* IndexEntries of writeDWP: signature and contributions
  LocListDebugInfoPatchesMutex, \* owner of LocListDebugInfoPatchesMutex, 0: free
  SplitLowPCForm,          \* form of DW_AT_low_pc in the split units (input data)
  mapAccess,               \* unit -> the map its task is reading or writing
  DwoWriters               \* DWO ids that have a writer in LocListWritersByCU

ctlVars == <<parallel, phase, pc, SplitCU, walkDwo, cur, visited>>
rangeVars == <<dies, lowpcDies, CriticalSectionMutex, flushIdx, ConvertedRangesAbbrevs,
               PendingRanges, RangeBase, RangesSection, AbbrevPatches, AddrTable>>
locVars == <<locDies, LocWriterSize, LocListDebugInfoPatches,
             DwoLocListDebugInfoPatches, LocOrder, SectionOffsetByCU, LoclistFinalized>>
finVars == <<opts, NDEBUG, DWOId, StrSection, CUAddressRanges, Registered, Exit,
             DWOFiles, DWP, GdbIndex, NewGdbIndex>>
lockVars == <<DebugInfoPatcherMutex, appending>>
walkVars == <<CachedRanges, blockDies>>
nameVars == <<DWONames, NameToIndexMap, DWOIdToName, nameCalls>>
entryVars == <<entryWalk, errs, UnitAbbrevs>>
abbrevVars == <<NormalUnits, DebugTypesPatcher>>
pkgVars == <<DWOSections, PkgIndex>>
mutexVars == <<LocListDebugInfoPatchesMutex>>
formVars == <<SplitLowPCForm>>
mapVars == <<mapAccess, DwoWriters>>
vars == <<ctlVars, rangeVars, Patches, locVars, bytesCase, finVars, lockVars, walkVars, nameVars,
          entryVars, abbrevVars, pkgVars, mutexVars, formVars, mapVars>>

\* The form of DW_AT_low_pc in the declarations of a table: an address in a
\* top-level unit; in a split unit, which has no relocations, an address
\* index, or whatever form its producer chose.
LowFormOf(d) == IF d.tbl = TopPatcher THEN "DW_FORM_addr" ELSE SplitLowPCForm

\* ------------------------------------------------------------ input data
\* The j-th of the output ranges the relocation collaborator reports for the
\* function of DIE i (BinaryFunction::getOutputAddressRanges): distinct
\* functions have distinct, non-empty, non-overlapping ranges.
\* A DIE is named by <<unit, position among the DIEs of the unit's task>>;
\* DieNo numbers the DIEs of all units.
DieNo(i) == MaxDIEs * (i[1] - 1) + i[2]
OutputRange(i, j) ==
  [LowPC |-> 100 * DieNo(i) + 10 * j, HighPC |-> 100 * DieNo(i) + 10 * j + 4 + j]
FunctionRangesOf(i, n) == [j \in 1 .. n |-> OutputRange(i, j)]

\* DebugAddressRange(): the default-constructed range.
DefaultRange == [LowPC |-> 0, HighPC |-> 0]

\* Numbers of output ranges the walk meets: none (function removed or not
\* found), one (contiguous), three (split function).
RangeCounts == {0, 1, 3}

\* Bytes of the ULEB128 encoding of v.
ULEBSize(v) == IF v < 128 THEN 1 ELSE IF v < 16384 THEN 2 ELSE 3

\* The address index stored in the low_pc of split-unit DIE i.
IndexLOf(i) == DieNo(i)

DeclOf(die) == [tbl |-> die.tbl, hi |-> die.hi]

\* ------------------------------------------------- SimpleBinaryPatcher
\* A recorded patch: its encoding, the offset and number of bytes it
\* overwrites and its value. die and enc annotate it with the DIE it was
\* recorded for and the encoding that DIE is given ("ranges": by
\* convertToRanges, "lowhigh": by patchLowHigh); the bytes alone do not tell.
U32(v) == v % U32Modulus
LE32Patch(off, v) == [kind |-> "LE32", off |-> off, size |-> SecOffsetSize, val |-> U32(v)]
LE64Patch(off, v) == [kind |-> "LE64", off |-> off, size |-> AddrSize, val |-> v]
UDataPatch(off, v, size) == [kind |-> "UData", off |-> off, size |-> size, val |-> v]
Annotate(ps, die, enc) ==
  [k \in 1 .. Len(ps) |->
     [kind |-> ps[k].kind, off |-> ps[k].off, size |-> ps[k].size,
      val |-> ps[k].val, die |-> die, enc |-> enc]]

Abs(x) == IF x < 0 THEN -x ELSE x

\* ----------------------------------------------------- getRangeAttrData
isHighPcFormEightBytes(form) == form \in {"DW_FORM_addr", "DW_FORM_data8"}

\* Offsets and forms of the low_pc and high_pc attributes of DIE i with
\* input data die: high_pc follows low_pc immediately.
LowPCOffsetOf(i) == DieStride * DieNo(i)
LowPCSize(lowForm, index) ==
  IF lowForm = "DW_FORM_GNU_addr_index" THEN ULEBSize(index) ELSE AddrSize
HighPCSize(highForm) == IF isHighPcFormEightBytes(highForm) THEN AddrSize ELSE SecOffsetSize
getRangeAttrData(i, die) ==
  [LowPCOffset |-> LowPCOffsetOf(i),
   HighPCOffset |-> LowPCOffsetOf(i) + LowPCSize(LowFormOf(DeclOf(die)), IndexLOf(i)),
   LowPCForm |-> LowFormOf(DeclOf(die)),
   HighPCForm |-> die.hi]

\* ------------------------------------- convertToRanges(DIE, offset, ...)
\* Variant: the width of high_pc is not looked at.
NumBytesToFillOfUnsized(highForm) == FillFour

\* Size to fill with the first field.
NumBytesToFillOf(highForm) ==
  IF isHighPcFormEightBytes(highForm) THEN FillEight ELSE FillFour

\* The patches convertToRanges records for one DIE whose attribute data is
\* a, given the ranges-section offset, the patcher's RangeBase and the
\* optional RangesBase argument.
FirstFieldPatches(a, patcherBase, RangesBase) ==
  IF a.LowPCForm = "DW_FORM_GNU_addr_index"
    THEN <<UDataPatch(a.LowPCOffset, 0,
                      Abs(a.HighPCOffset - a.LowPCOffset)
                        + NumBytesToFillOf(a.HighPCForm) - 8)>>
    ELSE IF RangesBase # NoBase
      THEN <<UDataPatch(a.LowPCOffset, DW_FORM_udata, 1),
             UDataPatch(a.LowPCOffset + 1, RangesBase,
                        NumBytesToFillOf(a.HighPCForm) - 1)>>
      ELSE IF NumBytesToFillOf(a.HighPCForm) = 12
        THEN <<UDataPatch(a.LowPCOffset, DW_FORM_addr, 4),
               LE64Patch(a.LowPCOffset + 4, 0)>>
        ELSE <<LE64Patch(a.LowPCOffset, 0)>>

BaseOffsetOf(a, patcherBase) ==
  IF a.LowPCForm = "DW_FORM_GNU_addr_index" THEN patcherBase ELSE 0

RangesOffsetPatch(a, RangesSectionOffset, patcherBase) ==
  LE32Patch(a.HighPCOffset + NumBytesToFillOf(a.HighPCForm) - 8,
            RangesSectionOffset - BaseOffsetOf(a, patcherBase))

convertToRangesPatches(a, RangesSectionOffset, patcherBase, RangesBase) ==
  Append(FirstFieldPatches(a, patcherBase, RangesBase),
         RangesOffsetPatch(a, RangesSectionOffset, patcherBase))

\* ------------------------------------------- DebugRangesSectionWriter
\* The section starts with the reserved empty list (one terminator pair);
\* every added list takes one pair per range and a terminator pair.
EmptyRangesOffset == 0
ListBytes(list) == RangeEntrySize * (Len(list) + 1)
SectionOffsetOf(sec) ==
  IF sec = <<>> THEN RangeEntrySize
  ELSE sec[Len(sec)].off + ListBytes(sec[Len(sec)].ranges)
\* addRanges(list): append, the offset is the section offset before it.
addRanges(sec, list) == Append(sec, [off |-> SectionOffsetOf(sec), ranges |-> list])
\* The list stored at a ranges-section offset.
ListAt(sec, off) ==
  IF off = EmptyRangesOffset THEN <<>>
  ELSE LET S == {k \in 1 .. Len(sec) : sec[k].off = off}
       IN IF S = {} THEN <<DefaultRange, DefaultRange>> ELSE sec[CHOOSE k \in S : TRUE].ranges

\* ------------------------------------------------------ DebugAddrWriter
\* addIndexAddress: the newest address registered at an index wins.
addIndexAddress(tab, address, index) ==
  {e \in tab : e[1] # index} \cup {<<index, address>>}
\* getIndexFromAddress: the (lowest) index that holds the address.
getIndexFromAddress(tab, address) ==
  LET S == {e[1] : e \in {x \in tab : x[2] = address}}
  IN IF S = {} THEN -1 ELSE CHOOSE k \in S : \A m \in S : k <= m

\* ---------------------------------------------------- DebugAbbrevWriter
\* addAttributePatch(Abbrev, Attr, NewAttr, NewForm): recorded per declaration.
AttrPatch(attr, newAttr, newForm) == [attr |-> attr, newAttr |-> newAttr, newForm |-> newForm]

\* convertToRanges(Unit, Abbrev, AbbrevWriter, RangesBase): the attribute
\* patches that turn the low_pc/high_pc pair of d into a ranges attribute.
convertToRangesAbbrev(d, RangesBase) ==
  (IF RangesBase # NoBase
     THEN <<AttrPatch("DW_AT_low_pc", "DW_AT_GNU_ranges_base", "DW_FORM_indirect")>>
     ELSE IF LowFormOf(d) # "DW_FORM_GNU_addr_index" /\ isHighPcFormEightBytes(d.hi)
       THEN <<AttrPatch("DW_AT_low_pc", "DW_AT_low_pc", "DW_FORM_indirect")>>
       ELSE <<>>)
  \o <<AttrPatch("DW_AT_high_pc", "DW_AT_ranges", "DW_FORM_sec_offset")>>

\* ------------------------------------------------------------ patchLowHigh
\* The patcher patchLowHigh records into: the split unit's own patcher when
\* low_pc is an address index, else the patcher it was handed.
patchLowHighTarget(a, die, DebugInfoPatcher) ==
  IF a.LowPCForm = "DW_FORM_GNU_addr_index" THEN die.tbl ELSE DebugInfoPatcher
\* Variant of patchLowHigh: high_pc is given the range's end address.
patchLowHighPatchesEndAddress(a, die, Range, addrTab) ==
  <<IF a.LowPCForm = "DW_FORM_GNU_addr_index"
      THEN UDataPatch(a.LowPCOffset, getIndexFromAddress(addrTab[die.tbl], Range.LowPC),
                      Abs(a.HighPCOffset - a.LowPCOffset))
      ELSE LE64Patch(a.LowPCOffset, Range.LowPC),
    IF isHighPcFormEightBytes(a.HighPCForm)
      THEN LE64Patch(a.HighPCOffset, Range.HighPC)
      ELSE LE32Patch(a.HighPCOffset, Range.HighPC)>>

patchLowHighPatches(a, die, Range, addrTab) ==
  <<IF a.LowPCForm = "DW_FORM_GNU_addr_index"
      THEN UDataPatch(a.LowPCOffset, getIndexFromAddress(addrTab[die.tbl], Range.LowPC),
                      Abs(a.HighPCOffset - a.LowPCOffset))
      ELSE LE64Patch(a.LowPCOffset, Range.LowPC),
    IF isHighPcFormEightBytes(a.HighPCForm)
      THEN LE64Patch(a.HighPCOffset, Range.HighPC - Range.LowPC)
      ELSE LE32Patch(a.HighPCOffset, Range.HighPC - Range.LowPC)>>

\* patchLowHigh applied to a sequence of pending entries, in order.
RECURSIVE patchLowHighAll(_, _, _, _)
patchLowHighAll(P, entries, ds, addrTab) ==
  IF entries = <<>> THEN P
  ELSE LET e == Head(entries)
           die == ds[e.die[1]][e.die[2]]
           a == getRangeAttrData(e.die, die)
           t == patchLowHighTarget(a, die, TopPatcher)
       IN patchLowHighAll(
            [P EXCEPT ![t] = @ \o Annotate(patchLowHighPatches(a, die, e.range, addrTab),
                                           e.die, "lowhigh")],
            Tail(entries), ds, addrTab)
\* Variant: every DIE is given the offset of the empty list.
convertOffsetAlwaysEmpty(sec, Ranges) == EmptyRangesOffset
\* Variant: the ranges of the DIE are not added to the section.
convertSectionNotAdded(sec, Ranges) == sec

\* -------------------------------------------- convertToRanges(DIE, Ranges)
\* The offset convertToRanges(DIE, Ranges, Patcher) patches with, and the
\* ranges section after it: the shared empty offset for an empty list, else
\* a newly added list.
convertOffset(sec, Ranges) ==
  IF Ranges = <<>> THEN EmptyRangesOffset ELSE SectionOffsetOf(sec)
convertSection(sec, Ranges) ==
  IF Ranges = <<>> THEN sec ELSE addRanges(sec, Ranges)
\* Patcher p after convertToRanges(DIE i, Ranges, p).
convertDie(P, p, i, die, Ranges, sec, bases) ==
  [P EXCEPT ![p] = @ \o Annotate(
       convertToRangesPatches(getRangeAttrData(i, die), convertOffset(sec, Ranges),
                              bases[p], NoBase),
       i, "ranges")]

\* ==================================================== the unit tasks
\* The keys of LocListWritersByCU: the compile-unit indices 0 .. NumCUs - 1
\* (a single entry when running single-threaded without split units).
NumCUsOf(par, split) ==
  IF ~par /\ {u \in Units : split[u]} = {} THEN 1 ELSE NumUnits
CUKeys == 0 .. NumCUsOf(parallel, SplitCU) - 1
\* The split unit of unit u: its patcher and its deferred-patch list are
\* named u; the key of its writer in LocListWritersByCU is its DWO id, which
\* differs from every compile-unit index (the code asserts the key is unused).
DwoKey(u) == NumUnits - 1 + u
LocKeys == 0 .. 2 * NumUnits - 1

\* bytesCase while no DIE is handed to convertToRanges (Spec, SpecLoc).
IdleBytesCase ==
  [a |-> [LowPCOffset |-> 0, HighPCOffset |-> 0, LowPCForm |-> "DW_FORM_addr",
          HighPCForm |-> "DW_FORM_data4"],
   RangesBase |-> NoBase, patcherBase |-> 0, offset |-> 0, patches |-> <<>>,
   done |-> FALSE]

\* Unit->getDWOId() of a unit that is no skeleton.
NoDWOId == 0
\* The package file before writeDWP has run.
NoPackage == [entries |-> <<>>, kept |-> FALSE, errs |-> FALSE]
\* The options of a run in the given threading mode when nothing else is
\* asked for: the standalone split-unit files go next to their inputs.
PlainOpts(par) ==
  [NoThreads |-> ~par, DeterministicDebugInfo |-> FALSE, DwarfOutputPath |-> FALSE]

\* A task that is at no addLE32Patch / addLE64Patch / addUDataPatch call:
\* site is the call it is inside of, queue the calls it makes next (each
\* with the patches it adds, and whether DebugInfoPatcherMutex is held
\* around it), to the patcher they go to, decl and abbrev the declaration
\* patched along, after where the task goes on, raced whether another
\* task was inside a call on the same patcher at the same time, seen the
\* walks whose unit DIE has been handled.
NotAppending ==
  [site |-> "none", queue |-> <<>>, to |-> TopPatcher,
   decl |-> <<>>, abbrev |-> <<>>, after |-> "walk", raced |-> FALSE, seen |-> {}]

\* No skeleton has been given an output name for its split unit.
NoNames ==
  /\ NameToIndexMap = {}
  /\ DWOIdToName = {}
  /\ nameCalls = <<>>

\* The writers, patchers and lists as the constructor part of updateDebugInfo
\* leaves them: all empty.
\* A task that is inside no call on a shared map.
NoAccess == [map |-> "none", write |-> FALSE, raced |-> FALSE]

EmptyWriters ==
  /\ walkDwo = [u \in Units |-> FALSE]
  /\ cur = [u \in Units |-> 0]
  /\ dies = [u \in Units |-> <<>>]
  /\ lowpcDies = [u \in Units |-> <<>>]
  /\ visited = 0
  /\ CriticalSectionMutex = 0
  /\ flushIdx = 0
  /\ ConvertedRangesAbbrevs = {}
  /\ PendingRanges = [d \in Decls |-> <<>>]
  /\ Patches = [p \in PatcherIds |-> <<>>]
  /\ RangeBase = [p \in PatcherIds |-> 0]
  /\ RangesSection = <<>>
  /\ AbbrevPatches = [d \in Decls \cup UnitDecls \cup RangesDecls |-> <<>>]
  /\ AddrTable = [u \in Units |-> {}]
  /\ locDies = [u \in Units |-> <<>>]
  /\ LocWriterSize = [k \in LocKeys |-> 0]
  /\ LocListDebugInfoPatches = <<>>
  /\ DwoLocListDebugInfoPatches = [u \in Units |-> <<>>]
  /\ LocOrder = <<>>
  /\ SectionOffsetByCU = [k \in LocKeys |-> 0]
  /\ LoclistFinalized = {}
  /\ StrSection = 0
  /\ Exit = "none"
  /\ DWOFiles = {}
  /\ DWP = NoPackage
  /\ NewGdbIndex = <<>>
  /\ DebugInfoPatcherMutex = 0
  /\ appending = [u \in Units |-> NotAppending]
  /\ CachedRanges = [u \in Units |-> {}]
  /\ blockDies = [u \in Units |-> <<>>]
  /\ NoNames
  /\ errs = <<>>
  /\ UnitAbbrevs = [u \in Units |-> 0]
  /\ NormalUnits = <<>>
  /\ DebugTypesPatcher = NoTypesPatcher
  /\ PkgIndex = <<>>
  /\ LocListDebugInfoPatchesMutex = 0
  /\ mapAccess = [u \in Units |-> NoAccess]
  /\ DwoWriters = {}

\* The state after the constructor part of updateDebugInfo: nothing walked,
\* nothing registered.
StartState ==
  /\ phase = "units"
  /\ pc = [u \in Units |-> "start"]
  /\ CUAddressRanges = <<>>
  /\ Registered = <<>>
  /\ EmptyWriters
\* A run in which the entry streams of the units are not looked at.
NoEntries == <<>>
\* ... in which the files of the split units hold no sections.
NoSections == [u \in Units |-> <<>>]
\* ... of a run whose split units' names are not looked at.
InitState ==
  StartState /\ DWONames = <<>> /\ entryWalk = NoEntries /\ DWOSections = NoSections /\ SplitLowPCForm = "DW_FORM_GNU_addr_index"

\* Any threading mode, and any subset of the units being skeletons of loaded
\* split units.
InitUnits ==
  /\ parallel \in BOOLEAN
  /\ SplitCU \in [Units -> BOOLEAN]
  /\ InitState

\* A release build run with plain options on a binary without .gdb_index,
\* each skeleton naming its own split unit.
InitPlain ==
  /\ opts = PlainOpts(parallel)
  /\ NDEBUG = TRUE
  /\ DWOId = [u \in Units |-> IF SplitCU[u] THEN u ELSE NoDWOId]
  /\ GdbIndex = <<>>

Init == InitUnits /\ InitPlain /\ bytesCase = IdleBytesCase

\* The patcher the walk of task u records into.
PatcherOf(u) == IF walkDwo[u] THEN u ELSE TopPatcher
CurId(u) == <<u, cur[u]>>
CurDie(u) == dies[u][cur[u]]
CurRanges(u) == FunctionRangesOf(CurId(u), CurDie(u).n)
DieAt(i) == dies[i[1]][i[2]]

\* updateDebugInfo: a task per unit in parallel mode, else one unit after
\* the other in compile-unit order.
MayStart(u) == parallel \/ \A v \in Units : v < u => pc[v] = "done"

\* The unit DIEs lie behind the DIEs the walks dispatch: the header of unit
\* u, then the attributes of its unit DIE.
CUOffsetOf(u) == DieStride * (NumUnits * MaxDIEs + 1) + 2 * DieStride * (u - 1)
DwoNameOffsetOf(u) == CUOffsetOf(u) + 12
CompDirOffsetOf(u) == DwoNameOffsetOf(u) + SecOffsetSize
AddrBaseOffsetOf(u) == CompDirOffsetOf(u) + SecOffsetSize
RangesBaseOffsetOf(u) == AddrBaseOffsetOf(u) + SecOffsetSize
UnitLowPCOffsetOf(u) == RangesBaseOffsetOf(u) + SecOffsetSize
UnitDie(u) == <<u, 0>>

\* Bytes StrWriter->addString appends: the name of unit u's split unit and
\* opts::DwarfOutputPath, each with its terminator.
DWONameSize(u) == 6 + u
OutputPathSize == 5

\* updateDWONameCompDir: DW_AT_GNU_dwo_name is patched with the offset of the
\* output name in the new string section, and DW_AT_comp_dir with that of
\* the output directory when one is given. Both go to the top-level patcher.
dwoNamePatch(u, NewOffset) ==
  Annotate(<<LE32Patch(DwoNameOffsetOf(u), NewOffset)>>, UnitDie(u), "dwoName")
compDirPatch(u, NewOffset) ==
  Annotate(<<LE32Patch(CompDirOffsetOf(u), NewOffset)>>, UnitDie(u), "compDir")
updateDWONameCompDir(u, str, outputPath) ==
  dwoNamePatch(u, str)
    \o (IF outputPath THEN compDirPatch(u, str + DWONameSize(u)) ELSE <<>>)
strAfterNameCompDir(u, str, outputPath) ==
  str + DWONameSize(u) + (IF outputPath THEN OutputPathSize ELSE 0)

\* processUnitDIE, up to the first walk: a unit with a loaded split unit
\* patches its name attributes, captures the ranges base and walks the split
\* unit first. A skeleton whose split unit failed to load is handled as a
\* plain unit.
StartUnit(u) ==
  /\ phase = "units" /\ pc[u] = "start" /\ MayStart(u)
  /\ walkDwo' = [walkDwo EXCEPT ![u] = SplitCU[u]]
  /\ RangeBase' = IF SplitCU[u]
                    THEN [RangeBase EXCEPT ![u] = SectionOffsetOf(RangesSection)]
                    ELSE RangeBase
  /\ Patches' = IF SplitCU[u]
                  THEN [Patches EXCEPT ![TopPatcher] =
                          @ \o updateDWONameCompDir(u, StrSection, opts.DwarfOutputPath)]
                  ELSE Patches
  /\ StrSection' = IF SplitCU[u]
                     THEN strAfterNameCompDir(u, StrSection, opts.DwarfOutputPath)
                     ELSE StrSection
  /\ pc' = [pc EXCEPT ![u] = "walk"]
  /\ UNCHANGED <<parallel, phase, SplitCU, cur, visited, dies, lowpcDies, CriticalSectionMutex,
                 flushIdx, ConvertedRangesAbbrevs, PendingRanges,
                 RangesSection, AbbrevPatches, AddrTable, locVars, bytesCase,
                 opts, NDEBUG, DWOId, CUAddressRanges, Registered, Exit, DWOFiles,
                 DWP, GdbIndex, NewGdbIndex, lockVars, walkVars, nameVars, entryVars, abbrevVars, pkgVars, mutexVars, formVars, mapVars>>

\* Variant: the writer of a split unit is not finalized between the walks.
finalizedAfterWalkNever(final, u, dwo) == final

\* static_cast<DebugLoclistWriter *>(...)->finalizePatches() after the walk
\* of the split unit of u.
finalizedAfterWalk(final, u, dwo) == IF dwo THEN final \cup {u} ELSE final

\* The walk of one unit ends, and its CachedRanges with it: after the split
\* unit, whose location-list writer is finalized, comes the skeleton, after
\* the skeleton (or the plain unit) the task is finished.
EndWalk(u) ==
  /\ pc[u] = "walk"
  /\ IF walkDwo[u]
       THEN walkDwo' = [walkDwo EXCEPT ![u] = FALSE] /\ pc' = pc
       ELSE pc' = [pc EXCEPT ![u] = "done"] /\ walkDwo' = walkDwo
  /\ LoclistFinalized' = finalizedAfterWalk(LoclistFinalized, u, walkDwo[u])
  /\ CachedRanges' = [CachedRanges EXCEPT ![u] = {}]
  /\ UNCHANGED <<parallel, phase, SplitCU, cur, visited, rangeVars, Patches, locDies,
                 LocWriterSize, LocListDebugInfoPatches, DwoLocListDebugInfoPatches,
                 LocOrder, SectionOffsetByCU,
                 bytesCase, finVars, lockVars, blockDies, nameVars, entryVars, abbrevVars, pkgVars, mutexVars, formVars, mapVars>>
\* Variant: the critical section is entered without waiting for the mutex.
LockAvailableUnguarded(u) == TRUE

\* std::unique_lock Lock(CriticalSectionMutex) can be taken.
LockAvailable(u) == CriticalSectionMutex = 0

\* A skeleton unit holds its unit DIE only: the children of a unit with a
\* split unit are met in the walk of the split unit.
HasChildren(u) == walkDwo[u] \/ ~SplitCU[u]

\* The high_pc forms of the subprogram declarations a walk meets.
WalkHighForms(dwo) ==
  IF dwo THEN {"DW_FORM_data4"} ELSE {"DW_FORM_data4", "DW_FORM_data8"}
\* Variant: a single range already takes the conversion branch.
BranchOfAtLeastOne(die) ==
  IF die.n >= 1 THEN "convertPending"
  ELSE IF DeclOf(die) \in ConvertedRangesAbbrevs THEN "convertToRanges"
  ELSE "addToPending"

\* The branch the critical section takes for a DIE with input data die.
BranchOf(die) ==
  IF die.n > 1 THEN "convertPending"
  ELSE IF DeclOf(die) \in ConvertedRangesAbbrevs THEN "convertToRanges"
  ELSE "addToPending"

\* DW_TAG_subprogram with a low_pc/high_pc pair: the DIE and its function's
\* output ranges are read, the critical section is entered and the branch
\* is chosen: if (FunctionRanges.size() > 1) ... else if (converted) ...
\* else ...; the second branch leaves the critical section at once.
VisitSubprogram(u) ==
  /\ pc[u] = "walk" /\ visited < MaxDIEs
  /\ HasChildren(u)
  /\ LockAvailable(u)
  /\ \E hi \in WalkHighForms(walkDwo[u]), n \in RangeCounts :
       LET die == [tbl |-> PatcherOf(u), hi |-> hi, n |-> n] IN
         /\ dies' = [dies EXCEPT ![u] = Append(@, die)]
         /\ pc' = [pc EXCEPT ![u] = BranchOf(die)]
         /\ CriticalSectionMutex' = IF BranchOf(die) = "convertToRanges" THEN 0 ELSE u
  /\ cur' = [cur EXCEPT ![u] = Len(dies[u]) + 1]
  /\ visited' = visited + 1
  /\ CachedRanges' = [CachedRanges EXCEPT ![u] = {}]
  /\ UNCHANGED <<parallel, phase, SplitCU, walkDwo, lowpcDies, flushIdx,
                 ConvertedRangesAbbrevs, PendingRanges, Patches, RangeBase,
                 RangesSection, AbbrevPatches, AddrTable, locVars, bytesCase, finVars,
                 lockVars, blockDies, nameVars, entryVars, abbrevVars, pkgVars, mutexVars, formVars, mapVars>>
\* Variant: convertPending does not test the converted set.
AlreadyConvertedUntested(d) == FALSE

\* convertPending finds the declaration already converted.
AlreadyConverted(d) == d \in ConvertedRangesAbbrevs

\* convertPending, entry: return at once for a converted declaration, else
\* rewrite the declaration and start on its pending entries.
ConvertPendingBegin(u) ==
  /\ pc[u] = "convertPending"
  /\ LET d == DeclOf(CurDie(u)) IN
       IF AlreadyConverted(d)
         THEN /\ pc' = [pc EXCEPT ![u] = "convertToRanges"]
              /\ CriticalSectionMutex' = 0
              /\ UNCHANGED <<AbbrevPatches, flushIdx>>
         ELSE /\ AbbrevPatches' = [AbbrevPatches EXCEPT ![d] = @ \o convertToRangesAbbrev(d, NoBase)]
              /\ flushIdx' = 1
              /\ pc' = [pc EXCEPT ![u] = "flushPending"]
              /\ UNCHANGED CriticalSectionMutex
  /\ UNCHANGED <<parallel, phase, SplitCU, walkDwo, cur, visited, dies, lowpcDies,
                 ConvertedRangesAbbrevs, PendingRanges, Patches, RangeBase,
                 RangesSection, AddrTable, locVars, bytesCase, finVars, lockVars, walkVars, nameVars, entryVars, abbrevVars, pkgVars, mutexVars, formVars, mapVars>>

\* convertPending, one turn of the loop over the declaration's pending
\* entries: the entry's DIE is converted with its single retained range.
ConvertPendingEntry(u) ==
  /\ pc[u] = "flushPending"
  /\ DebugInfoPatcherMutex = 0
  /\ LET d == DeclOf(CurDie(u)) IN
       /\ flushIdx <= Len(PendingRanges[d])
       /\ LET e == PendingRanges[d][flushIdx] IN
            /\ Patches' = convertDie(Patches, PatcherOf(u), e.die, DieAt(e.die),
                                      <<e.range>>, RangesSection, RangeBase)
            /\ RangesSection' = convertSection(RangesSection, <<e.range>>)
       /\ flushIdx' = flushIdx + 1
  /\ UNCHANGED <<ctlVars, dies, lowpcDies, CriticalSectionMutex, ConvertedRangesAbbrevs,
                 PendingRanges, RangeBase, AbbrevPatches, AddrTable, locVars,
                 bytesCase, finVars, lockVars, walkVars, nameVars, entryVars, abbrevVars, pkgVars, mutexVars, formVars, mapVars>>
\* Variant: convertPending leaves the declaration's entries in the list.
erasePendingKept(P, d) == P

\* The pending list after PendingRanges.erase(I).
erasePending(P, d) == [P EXCEPT ![d] = <<>>]

\* convertPending, end: the declaration's entries are erased and it joins
\* the converted set; the caller leaves the critical section.
ConvertPendingEnd(u) ==
  /\ pc[u] = "flushPending"
  /\ LET d == DeclOf(CurDie(u)) IN
       /\ flushIdx > Len(PendingRanges[d])
       /\ PendingRanges' = erasePending(PendingRanges, d)
       /\ ConvertedRangesAbbrevs' = ConvertedRangesAbbrevs \cup {d}
  /\ flushIdx' = 0
  /\ CriticalSectionMutex' = 0
  /\ pc' = [pc EXCEPT ![u] = "convertToRanges"]
  /\ UNCHANGED <<parallel, phase, SplitCU, walkDwo, cur, visited, dies, lowpcDies, Patches,
                 RangeBase, RangesSection, AbbrevPatches, AddrTable, locVars,
                 bytesCase, finVars, lockVars, walkVars, nameVars, entryVars, abbrevVars, pkgVars, mutexVars, formVars, mapVars>>

\* convertToRanges(DIE, FunctionRanges, DebugInfoPatcher), outside the
\* critical section.
ConvertToRanges(u) ==
  /\ pc[u] = "convertToRanges"
  /\ DebugInfoPatcherMutex = 0
  /\ Patches' = convertDie(Patches, PatcherOf(u), CurId(u), CurDie(u), CurRanges(u),
                            RangesSection, RangeBase)
  /\ RangesSection' = convertSection(RangesSection, CurRanges(u))
  /\ pc' = [pc EXCEPT ![u] = "walk"]
  /\ cur' = [cur EXCEPT ![u] = 0]
  /\ UNCHANGED <<parallel, phase, SplitCU, walkDwo, visited, dies, lowpcDies,
                 CriticalSectionMutex, flushIdx, ConvertedRangesAbbrevs,
                 PendingRanges, RangeBase, AbbrevPatches, AddrTable, locVars,
                 bytesCase, finVars, lockVars, walkVars, nameVars, entryVars, abbrevVars, pkgVars, mutexVars, formVars, mapVars>>

\* The range addToPendingRanges retains: the function's only range, or the
\* default range the caller substitutes for a function without any.
PendingRangeOf(i, die) ==
  IF die.n = 0 THEN DefaultRange ELSE FunctionRangesOf(i, die.n)[1]

\* The address table after addToPendingRanges: an indexed low_pc registers
\* the range's low address at the DIE's own index (high_pc is a constant).
pendingAddrTable(tab, i, die) ==
  IF LowFormOf(DeclOf(die)) = "DW_FORM_GNU_addr_index"
    THEN [tab EXCEPT ![die.tbl] = addIndexAddress(@, PendingRangeOf(i, die).LowPC, IndexLOf(i))]
    ELSE tab

\* The pending list after addToPendingRanges(Abbrev, DIE, FunctionRanges).
pendingAfterAdd(P, i, die) ==
  [P EXCEPT ![DeclOf(die)] = Append(@, [die |-> i, range |-> PendingRangeOf(i, die)])]

\* addToPendingRanges, then the end of the critical section.
AddToPending(u) ==
  /\ pc[u] = "addToPending"
  /\ PendingRanges' = pendingAfterAdd(PendingRanges, CurId(u), CurDie(u))
  /\ AddrTable' = pendingAddrTable(AddrTable, CurId(u), CurDie(u))
  /\ CriticalSectionMutex' = 0
  /\ pc' = [pc EXCEPT ![u] = "walk"]
  /\ cur' = [cur EXCEPT ![u] = 0]
  /\ UNCHANGED <<parallel, phase, SplitCU, walkDwo, visited, dies, lowpcDies, flushIdx,
                 ConvertedRangesAbbrevs, Patches, RangeBase, RangesSection,
                 AbbrevPatches, locVars, bytesCase, finVars, lockVars, walkVars, nameVars, entryVars, abbrevVars, pkgVars, mutexVars, formVars, mapVars>>

\* ------------------------------------------- other DIEs with a low_pc
\* The input address stored in the low_pc of DIE i.
InputAddressOf(i) == 1000 + DieNo(i)
\* The output address of the low_pc of DIE i: 0 when no function contains
\* the input address.
NewAddressOf(i, found) == IF found THEN OutputRange(i, 1).LowPC ELSE 0

\* A DIE that is no subprogram or block and has a DW_AT_low_pc: under
\* DebugInfoPatcherMutex an indexed low_pc registers its address at its own
\* index, a direct one is patched with the new address.
VisitLowPC(u) ==
  /\ pc[u] = "walk" /\ visited < MaxDIEs
  /\ HasChildren(u)
  /\ DebugInfoPatcherMutex = 0
  /\ \E found \in BOOLEAN :
       LET i == <<u, Len(lowpcDies[u]) + 1>>
           Address == InputAddressOf(i)
           NewAddress == NewAddressOf(i, found)
       IN /\ lowpcDies' = [lowpcDies EXCEPT ![u] =
                 Append(@, [found |-> found, dwo |-> walkDwo[u]])]
          /\ IF LowFormOf([tbl |-> PatcherOf(u)]) = "DW_FORM_GNU_addr_index"
               THEN /\ AddrTable' = [AddrTable EXCEPT ![u] =
                          addIndexAddress(@, IF NewAddress # 0 THEN NewAddress ELSE Address,
                                          IndexLOf(i))]
                    /\ Patches' = Patches
               ELSE /\ Patches' = [Patches EXCEPT ![PatcherOf(u)] =
                          @ \o Annotate(<<LE64Patch(LowPCOffsetOf(i), NewAddress)>>, i, "lowpc")]
                    /\ AddrTable' = AddrTable
  /\ visited' = visited + 1
  /\ UNCHANGED <<parallel, phase, pc, SplitCU, walkDwo, cur, dies,
                 CriticalSectionMutex, flushIdx, ConvertedRangesAbbrevs,
                 PendingRanges, RangeBase, RangesSection, AbbrevPatches, locVars,
                 bytesCase, finVars, lockVars, walkVars, nameVars, entryVars, abbrevVars, pkgVars, mutexVars, formVars, mapVars>>

\* ---------------------------------- subprograms with DW_AT_ranges, blocks
\* Cap on the DIEs of these two kinds dispatched in one run (all units).
MaxRangeDIEs == 3

\* The k-th DIE of unit u with ranges, and where its attributes lie.
RangeDieNo(i) == MaxRangeDIEs * (i[1] - 1) + i[2]
RangesAttrOffsetOf(i) == DieStride * RangeDieNo(i) + 2 * AddrSize
BlockAttrData(i, die) ==
  [LowPCOffset |-> DieStride * RangeDieNo(i),
   HighPCOffset |-> DieStride * RangeDieNo(i)
                      + LowPCSize(LowFormOf(die), RangeDieNo(i)),
   LowPCForm |-> LowFormOf(die),
   HighPCForm |-> die.hi]

\* The range lists translateInputToOutputRanges gives the blocks of the
\* input: none (the function's code was removed), one range, two ranges.
BlockRangeLists ==
  {<<>>, <<[LowPC |-> 64, HighPC |-> 96]>>,
   <<[LowPC |-> 64, HighPC |-> 96], [LowPC |-> 128, HighPC |-> 160]>>}
\* DIE.getAddressRanges() of a block, and whether a function contains the
\* first address: an error, no range, or ranges in or outside a function.
BlockInputs ==
  {[in |-> "error", found |-> FALSE, out |-> <<>>],
   [in |-> "empty", found |-> FALSE, out |-> <<>>],
   [in |-> "ranges", found |-> FALSE, out |-> <<>>]}
  \cup {[in |-> "ranges", found |-> TRUE, out |-> l] : l \in BlockRangeLists}

\* DebugRangesSectionWriter::addRanges(Ranges, CachedRanges): the shared
\* empty offset for an empty list, the offset cached for an equal list, else
\* a newly added list, which is cached.
CachedOffsets(cache, list) == {e.off : e \in {x \in cache : x.ranges = list}}
\* Variant: the cache is not looked at.
addRangesCachedOffsetUncached(sec, cache, list) ==
  IF list = <<>> THEN EmptyRangesOffset ELSE SectionOffsetOf(sec)
addRangesCachedOffset(sec, cache, list) ==
  IF list = <<>> THEN EmptyRangesOffset
  ELSE IF CachedOffsets(cache, list) # {}
    THEN CHOOSE o \in CachedOffsets(cache, list) : TRUE
    ELSE SectionOffsetOf(sec)
addRangesCachedSection(sec, cache, list) ==
  IF list = <<>> \/ addRangesCachedOffset(sec, cache, list) # SectionOffsetOf(sec)
    THEN sec ELSE addRanges(sec, list)
addRangesCachedCache(sec, cache, list) ==
  IF list = <<>> THEN cache
  ELSE cache \cup {[ranges |-> list, off |-> addRangesCachedOffset(sec, cache, list)]}

\* The offset a block is patched with: the empty-ranges offset unless a
\* function contains its first address.
blockRangesOffset(sec, cache, b) ==
  IF b.found THEN addRangesCachedOffset(sec, cache, b.out) ELSE EmptyRangesOffset

\* updateDWARFObjectAddressRanges(DIE, DebugRangesOffset, DebugInfoPatcher,
\* AbbrevWriter) without a ranges base, case 1 and case 2: the patches of
\* the DIE and the attribute patches of its declaration.
objectRangesPatches(i, die, DebugRangesOffset, patcherBase) ==
  Annotate(
    IF die.hi = "none"
      THEN <<LE32Patch(RangesAttrOffsetOf(i), DebugRangesOffset - patcherBase)>>
      ELSE convertToRangesPatches(BlockAttrData(i, die), DebugRangesOffset,
                                  patcherBase, NoBase),
    i, "objectRanges")
\* Variant: the declaration is rewritten whether or not it has DW_AT_ranges.
objectRangesAbbrevAlways(die) == convertToRangesAbbrev(die, NoBase)
\* ... and the attribute patches of its declaration.
objectRangesAbbrev(die) ==
  IF die.hi = "none" THEN <<>> ELSE convertToRangesAbbrev(die, NoBase)

\* Variant: the cache outlives the function.
clearedCacheKept(cache) == cache
\* CachedRanges.clear(): the new function has its own set.
clearedCache(cache) == {}

\* DW_TAG_subprogram whose DIE has no low_pc/high_pc pair but a non-empty
\* DW_AT_ranges: CachedRanges is cleared, the output ranges of the function
\* at the first address (none when there is no such function) are added to
\* the ranges section and the DIE is patched with their offset.
VisitRangesSubprogram(u) ==
  /\ pc[u] = "walk" /\ visited < MaxRangeDIEs
  /\ HasChildren(u)
  /\ DebugInfoPatcherMutex = 0
  /\ \E found \in BOOLEAN :
       LET i == <<u, Len(blockDies[u]) + 1>>
           out == IF found THEN FunctionRangesOf(i, 2) ELSE <<>>
           die == [tag |-> "DW_TAG_subprogram", tbl |-> PatcherOf(u), hi |-> "none",
                   in |-> "ranges", found |-> found, out |-> out,
                   off |-> SectionOffsetOf(RangesSection)]
       IN /\ blockDies' = [blockDies EXCEPT ![u] = Append(@, die)]
          /\ CachedRanges' = [CachedRanges EXCEPT ![u] = clearedCache(@)]
          /\ RangesSection' = addRanges(RangesSection, out)
          /\ Patches' = [Patches EXCEPT ![PatcherOf(u)] =
               @ \o objectRangesPatches(i, die, die.off, RangeBase[PatcherOf(u)])]
          /\ AbbrevPatches' = [AbbrevPatches EXCEPT ![RangesDeclOf(die)] =
               @ \o objectRangesAbbrev(die)]
  /\ visited' = visited + 1
  /\ UNCHANGED <<parallel, phase, pc, SplitCU, walkDwo, cur, dies, lowpcDies, CriticalSectionMutex, flushIdx,
                 ConvertedRangesAbbrevs, PendingRanges, RangeBase,
                 AddrTable, locVars, bytesCase, finVars, lockVars, nameVars, entryVars, abbrevVars, pkgVars, mutexVars, formVars, mapVars>>

\* DW_TAG_lexical_block, DW_TAG_inlined_subroutine, DW_TAG_try_block and
\* DW_TAG_catch_block: the translated ranges go through the cache of the
\* walk, and the DIE is patched with the offset.
VisitBlock(u) ==
  /\ pc[u] = "walk" /\ visited < MaxRangeDIEs
  /\ HasChildren(u)
  /\ DebugInfoPatcherMutex = 0
  /\ \E b \in BlockInputs, hi \in {"none", "DW_FORM_data4"} :
       LET i == <<u, Len(blockDies[u]) + 1>>
           list == IF b.found THEN b.out ELSE <<>>
           die == [tag |-> "DW_TAG_lexical_block", tbl |-> PatcherOf(u), hi |-> hi,
                   in |-> b.in, found |-> b.found, out |-> b.out,
                   off |-> blockRangesOffset(RangesSection, CachedRanges[u], b)]
       IN /\ blockDies' = [blockDies EXCEPT ![u] = Append(@, die)]
          /\ CachedRanges' = [CachedRanges EXCEPT ![u] =
               addRangesCachedCache(RangesSection, @, list)]
          /\ RangesSection' = addRangesCachedSection(RangesSection, CachedRanges[u], list)
          /\ Patches' = [Patches EXCEPT ![PatcherOf(u)] =
               @ \o objectRangesPatches(i, die, die.off, RangeBase[PatcherOf(u)])]
          /\ AbbrevPatches' = [AbbrevPatches EXCEPT ![RangesDeclOf(die)] =
               @ \o objectRangesAbbrev(die)]
  /\ visited' = visited + 1
  /\ UNCHANGED <<parallel, phase, pc, SplitCU, walkDwo, cur, dies, lowpcDies, CriticalSectionMutex, flushIdx,
                 ConvertedRangesAbbrevs, PendingRanges, RangeBase, AddrTable, locVars,
                 bytesCase, finVars, lockVars, nameVars, entryVars, abbrevVars, pkgVars, mutexVars, formVars, mapVars>>

\* The walks over units of subprograms with DW_AT_ranges and of blocks.
NextBlocks ==
  \/ \E u \in Units : StartUnit(u)
  \/ \E u \in Units : VisitRangesSubprogram(u)
  \/ \E u \in Units : VisitBlock(u)
  \/ \E u \in Units : EndWalk(u)

SpecBlocks == Init /\ [][NextBlocks]_vars

\* The walks over units of subprograms, with a low_pc/high_pc pair or with
\* DW_AT_ranges.
NextSub ==
  \/ \E u \in Units : StartUnit(u)
  \/ \E u \in Units : EndWalk(u)
  \/ \E u \in Units : VisitSubprogram(u)
  \/ \E u \in Units : ConvertPendingBegin(u)
  \/ \E u \in Units : ConvertPendingEntry(u)
  \/ \E u \in Units : ConvertPendingEnd(u)
  \/ \E u \in Units : ConvertToRanges(u)
  \/ \E u \in Units : AddToPending(u)
  \/ \E u \in Units : VisitRangesSubprogram(u)

SpecSub == Init /\ [][NextSub]_vars

\* ----------------------------------------------------- the unit DIE
\* The output ranges of the module of unit u (translateModuleAddressRanges).
ModuleRangeCounts == {1}
\* The unit DIEs carry a DW_AT_ranges attribute ("none": no DW_AT_high_pc).
UnitHighForms == {"none"}
ModuleRangesOf(u, n) == FunctionRangesOf(UnitDie(u), n)
\* getRangeAttrData of the unit DIE of u, read in the walk with patcher p.
UnitAttrData(u, d) ==
  [LowPCOffset |-> UnitLowPCOffsetOf(u),
   HighPCOffset |-> UnitLowPCOffsetOf(u) + LowPCSize(LowFormOf(d), IndexLOf(UnitDie(u))),
   LowPCForm |-> LowFormOf(d),
   HighPCForm |-> d.hi]
\* The DW_AT_ranges attribute of a unit DIE that has one.
UnitRangesOffsetOf(u) == UnitLowPCOffsetOf(u) + AddrSize

\* SimpleBinaryPatcher::getWasRangBasedUsed() of the patcher of split unit
\* p: getRangeBase() was called, which every ranges patch of a split unit's
\* DIE does.
WasRangeBaseUsed(P, p) ==
  \E k \in 1 .. Len(P[p]) : P[p][k].enc \in {"ranges", "unitRanges"}

\* The RangesBase processUnitDIE hands to the walk of unit u itself.
RangesBaseFor(u) ==
  IF ~walkDwo[u] /\ SplitCU[u] /\ WasRangeBaseUsed(Patches, u) THEN RangeBase[u]
  ELSE NoBase

\* updateDWARFObjectAddressRanges, first part: a present DW_AT_GNU_ranges_base
\* is patched with the ranges base, which is then spent.
rangesBasePatch(u, RangesBase, hasRangesBase) ==
  IF RangesBase # NoBase /\ hasRangesBase
    THEN Annotate(<<LE32Patch(RangesBaseOffsetOf(u), RangesBase)>>, UnitDie(u), "rangesBase")
    ELSE <<>>
baseAfterPatch(RangesBase, hasRangesBase) ==
  IF hasRangesBase THEN NoBase ELSE RangesBase

\* updateDWARFObjectAddressRanges, case 1 and case 2: the patches of the DIE.
unitRangesPatches(u, d, DebugRangesOffset, patcherBase, RangesBase) ==
  Annotate(
    IF d.hi = "none"
      THEN <<LE32Patch(UnitRangesOffsetOf(u), DebugRangesOffset - patcherBase)>>
           \o (IF RangesBase # NoBase
                 THEN <<UDataPatch(UnitLowPCOffsetOf(u), DW_FORM_udata, 1),
                        UDataPatch(UnitLowPCOffsetOf(u) + 1, RangesBase, 7)>>
                 ELSE <<>>)
      ELSE convertToRangesPatches(UnitAttrData(u, d), DebugRangesOffset, patcherBase,
                                  RangesBase),
    UnitDie(u), "unitRanges")
\* ... and the attribute patches of its declaration.
unitRangesAbbrev(d, RangesBase) ==
  IF d.hi = "none"
    THEN (IF RangesBase # NoBase
            THEN <<AttrPatch("DW_AT_low_pc", "DW_AT_GNU_ranges_base", "DW_FORM_indirect")>>
            ELSE <<>>)
    ELSE convertToRangesAbbrev(d, RangesBase)

\* DebugARangesSectionWriter::addCURanges(offset, ranges).
addCURanges(cuRanges, offset, ranges) ==
  [o \in DOMAIN cuRanges \cup {offset} |-> IF o = offset THEN ranges ELSE cuRanges[o]]

\* ------------------------------------- the tasks, one patcher call a step
\* The walk task u is in.
WalkOf(u) == IF walkDwo[u] THEN "dwo" ELSE "unit"
\* One call on a patcher: the patches it adds and whether the caller holds
\* DebugInfoPatcherMutex around it.
Call(site, locked, patches) == [site |-> site, locked |-> locked, patches |-> patches]
Inside(u) == appending[u].site # "none"
\* Another task is inside a call on patcher p.
OthersInside(u, p) == {v \in Units \ {u} : Inside(v) /\ appending[v].to = p}

\* processUnitDIE, up to the first patch: a unit with a loaded split unit
\* adds the name of its split unit to the string section and goes to patch
\* DW_AT_GNU_dwo_name (line 208, no lock taken); any other unit is walked.
BeginUnit(u) ==
  /\ phase = "units" /\ pc[u] = "start" /\ MayStart(u)
  /\ IF SplitCU[u]
       THEN /\ StrSection' = StrSection + DWONameSize(u)
            /\ appending' = [appending EXCEPT ![u] =
                 [@ EXCEPT !.queue = <<Call("dwoName", FALSE, dwoNamePatch(u, StrSection))>>,
                           !.to = TopPatcher, !.after = "compDir"]]
            /\ pc' = [pc EXCEPT ![u] = "patch"]
       ELSE /\ pc' = [pc EXCEPT ![u] = "walk"]
            /\ UNCHANGED <<StrSection, appending>>
  /\ UNCHANGED <<parallel, phase, SplitCU, walkDwo, cur, visited, rangeVars, Patches,
                 locVars, bytesCase, opts, NDEBUG, DWOId, CUAddressRanges, Registered,
                 Exit, DWOFiles, DWP, GdbIndex, NewGdbIndex, DebugInfoPatcherMutex, walkVars, nameVars, entryVars, abbrevVars, pkgVars, mutexVars, formVars, mapVars>>

\* updateDWONameCompDir, second half: with an output directory its name is
\* added to the string section and DW_AT_comp_dir is patched (line 216, no
\* lock taken).
UpdateCompDir(u) ==
  /\ phase = "units" /\ pc[u] = "compDir"
  /\ IF opts.DwarfOutputPath
       THEN /\ StrSection' = StrSection + OutputPathSize
            /\ appending' = [appending EXCEPT ![u] =
                 [@ EXCEPT !.queue = <<Call("compDir", FALSE, compDirPatch(u, StrSection))>>,
                           !.to = TopPatcher, !.after = "loaded"]]
            /\ pc' = [pc EXCEPT ![u] = "patch"]
       ELSE /\ pc' = [pc EXCEPT ![u] = "loaded"]
            /\ UNCHANGED <<StrSection, appending>>
  /\ UNCHANGED <<parallel, phase, SplitCU, walkDwo, cur, visited, rangeVars, Patches,
                 locVars, bytesCase, opts, NDEBUG, DWOId, CUAddressRanges, Registered,
                 Exit, DWOFiles, DWP, GdbIndex, NewGdbIndex, DebugInfoPatcherMutex, walkVars, nameVars, entryVars, abbrevVars, pkgVars, mutexVars, formVars, mapVars>>

\* processUnitDIE after updateDWONameCompDir: the split unit's patcher gets
\* the ranges base and the split unit is walked first.
EnterSplitUnit(u) ==
  /\ phase = "units" /\ pc[u] = "loaded"
  /\ walkDwo' = [walkDwo EXCEPT ![u] = TRUE]
  /\ RangeBase' = [RangeBase EXCEPT ![u] = SectionOffsetOf(RangesSection)]
  /\ pc' = [pc EXCEPT ![u] = "walk"]
  /\ UNCHANGED <<parallel, phase, SplitCU, cur, visited, dies, lowpcDies,
                 CriticalSectionMutex, flushIdx, ConvertedRangesAbbrevs, PendingRanges,
                 RangesSection, AbbrevPatches, AddrTable, Patches, locVars, bytesCase,
                 finVars, lockVars, walkVars, nameVars, entryVars, abbrevVars, pkgVars, mutexVars, formVars, mapVars>>

\* DW_TAG_compile_unit, the first DIE of a walk (a unit DIE whose address
\* ranges cannot be read is left alone): the module's output ranges are
\* added to the ranges section and, for a unit that is no split unit, to
\* the arange writer; then updateDWARFObjectAddressRanges patches a present
\* DW_AT_GNU_ranges_base (line 623, no lock taken) and, under
\* DebugInfoPatcherMutex (line 635 or 1532), the ranges of the DIE.
VisitUnitDIE(u) ==
  /\ phase = "units" /\ pc[u] = "walk" /\ WalkOf(u) \notin appending[u].seen
  /\ \E hi \in UnitHighForms, n \in ModuleRangeCounts, hasRangesBase \in BOOLEAN :
       LET p == PatcherOf(u)
           d == UnitDeclOf(p, hi)
           OutputRanges == ModuleRangesOf(u, n)
           RangesSectionOffset == SectionOffsetOf(RangesSection)
           RangesBase == RangesBaseFor(u)
           rest == baseAfterPatch(RangesBase, hasRangesBase)
           base == rangesBasePatch(u, RangesBase, hasRangesBase)
       IN /\ RangesSection' = addRanges(RangesSection, OutputRanges)
          /\ CUAddressRanges' =
               IF walkDwo[u] THEN CUAddressRanges
               ELSE addCURanges(CUAddressRanges, CUOffsetOf(u), OutputRanges)
          /\ appending' = [appending EXCEPT ![u] =
               [@ EXCEPT !.queue =
                    (IF base = <<>> THEN <<>> ELSE <<Call("rangesBase", FALSE, base)>>)
                      \o <<Call("unitRanges", TRUE,
                                unitRangesPatches(u, d, RangesSectionOffset, RangeBase[p], rest))>>,
                  !.to = p, !.decl = <<d>>, !.abbrev = unitRangesAbbrev(d, rest),
                  !.after = "walk", !.seen = @ \cup {WalkOf(u)}]]
  /\ pc' = [pc EXCEPT ![u] = "patch"]
  /\ UNCHANGED <<parallel, phase, SplitCU, walkDwo, cur, visited, dies, lowpcDies,
                 CriticalSectionMutex, flushIdx, ConvertedRangesAbbrevs, PendingRanges,
                 RangeBase, AbbrevPatches, AddrTable, Patches, locVars, bytesCase,
                 opts, NDEBUG, DWOId, StrSection, Registered, Exit, DWOFiles, DWP,
                 GdbIndex, NewGdbIndex, DebugInfoPatcherMutex, walkVars, nameVars, entryVars, abbrevVars, pkgVars, mutexVars, formVars, mapVars>>

\* The task reaches its next patcher call: it first takes
\* DebugInfoPatcherMutex where the code does, then is inside the call.
EnterPatch(u) ==
  /\ phase = "units" /\ pc[u] = "patch" /\ ~Inside(u)
  /\ LET call == Head(appending[u].queue)
         others == OthersInside(u, appending[u].to)
     IN /\ call.locked => DebugInfoPatcherMutex = 0
        /\ DebugInfoPatcherMutex' = IF call.locked THEN u ELSE DebugInfoPatcherMutex
        /\ appending' =
             [v \in Units |->
                IF v = u THEN [appending[u] EXCEPT !.site = call.site, !.raced = others # {}]
                ELSE IF v \in others THEN [appending[v] EXCEPT !.raced = TRUE]
                ELSE appending[v]]
  /\ UNCHANGED <<ctlVars, rangeVars, Patches, locVars, bytesCase, finVars, walkVars, nameVars, entryVars, abbrevVars, pkgVars, mutexVars, formVars, mapVars>>

\* What a call on a std::vector that ran while another did can have done:
\* added its patches, lost them, or brought the process down. A call that
\* ran alone adds its patches.
Outcomes(raced) == IF raced THEN {"added", "lost", "crashed"} ELSE {"added"}

\* Variant: the mutex is still held after the scope of the lock_guard.
afterLockGuardHeld(mutex) == mutex

\* The mutex a std::lock_guard held, after the scope of the guard.
afterLockGuard(mutex) == 0

\* The task leaves the patcher call and gives the lock back; after the last
\* call of the DIE its declaration is patched (under the lock in the
\* code), and the task goes on.
LeavePatch(u) ==
  /\ phase = "units" /\ pc[u] = "patch" /\ Inside(u)
  /\ LET a == appending[u]
         call == Head(a.queue)
         last == Len(a.queue) = 1
     IN /\ \E outcome \in Outcomes(a.raced) :
             /\ Patches' = IF outcome = "added"
                             THEN [Patches EXCEPT ![a.to] = @ \o call.patches]
                             ELSE Patches
             /\ phase' = IF outcome = "crashed" THEN "exited" ELSE phase
             /\ Exit' = IF outcome = "crashed" THEN "signal" ELSE Exit
        /\ DebugInfoPatcherMutex' = IF call.locked
                                      THEN afterLockGuard(DebugInfoPatcherMutex)
                                      ELSE DebugInfoPatcherMutex
        /\ appending' = [appending EXCEPT ![u] =
             IF last
               THEN [NotAppending EXCEPT !.seen = a.seen]
               ELSE [a EXCEPT !.site = "none", !.queue = Tail(a.queue), !.raced = FALSE]]
        /\ pc' = IF last THEN [pc EXCEPT ![u] = a.after] ELSE pc
        /\ AbbrevPatches' = IF last /\ a.decl # <<>>
                               THEN [AbbrevPatches EXCEPT ![a.decl[1]] = @ \o a.abbrev]
                               ELSE AbbrevPatches
  /\ UNCHANGED <<parallel, SplitCU, walkDwo, cur, visited, dies, lowpcDies,
                 CriticalSectionMutex, flushIdx, ConvertedRangesAbbrevs, PendingRanges,
                 RangeBase, RangesSection, AddrTable, locVars, bytesCase, opts, NDEBUG, DWOId,
                 StrSection, CUAddressRanges, Registered, DWOFiles, DWP, GdbIndex,
                 NewGdbIndex, walkVars, nameVars, entryVars, abbrevVars, pkgVars, mutexVars, formVars, mapVars>>

\* A process that was brought down runs no further.
NextLock ==
  \/ \E u \in Units : BeginUnit(u)
  \/ \E u \in Units : UpdateCompDir(u)
  \/ \E u \in Units : EnterSplitUnit(u)
  \/ \E u \in Units : VisitUnitDIE(u)
  \/ \E u \in Units : EnterPatch(u)
  \/ \E u \in Units : LeavePatch(u)
  \/ \E u \in Units : phase = "units" /\ EndWalk(u)

\* Any threading mode and any skeletons, with or without an output
\* directory; the units hold their unit DIE only.
InitLock ==
  /\ parallel \in BOOLEAN
  /\ SplitCU \in [Units -> BOOLEAN]
  /\ opts \in {[PlainOpts(parallel) EXCEPT !.DwarfOutputPath = b] : b \in BOOLEAN}
  /\ NDEBUG = TRUE
  /\ DWOId = [u \in Units |-> IF SplitCU[u] THEN u ELSE NoDWOId]
  /\ GdbIndex = <<>>
  /\ InitState
  /\ bytesCase = IdleBytesCase

SpecLock == InitLock /\ [][NextLock]_vars

\* ------------------- the tasks with subprograms, one patcher call a step
\* convertToRanges(DIE, FunctionRanges, DebugInfoPatcher), outside the
\* critical section, as the calls it makes: the ranges are added to the
\* ranges section, then the patches are added under DebugInfoPatcherMutex.
ConvertToRangesCall(u) ==
  /\ phase = "units" /\ pc[u] = "convertToRanges"
  /\ RangesSection' = convertSection(RangesSection, CurRanges(u))
  /\ appending' = [appending EXCEPT ![u] =
       [@ EXCEPT !.queue =
            <<Call("convertToRanges", TRUE,
                   Annotate(convertToRangesPatches(
                              getRangeAttrData(CurId(u), CurDie(u)),
                              convertOffset(RangesSection, CurRanges(u)),
                              RangeBase[PatcherOf(u)], NoBase),
                            CurId(u), "ranges"))>>,
          !.to = PatcherOf(u), !.decl = <<>>, !.abbrev = <<>>, !.after = "walk"]]
  /\ pc' = [pc EXCEPT ![u] = "patch"]
  /\ cur' = [cur EXCEPT ![u] = 0]
  /\ UNCHANGED <<parallel, phase, SplitCU, walkDwo, visited, dies, lowpcDies,
                 CriticalSectionMutex, flushIdx, ConvertedRangesAbbrevs,
                 PendingRanges, RangeBase, AbbrevPatches, AddrTable, Patches, locVars,
                 bytesCase, finVars, DebugInfoPatcherMutex, walkVars, nameVars, entryVars,
                 abbrevVars, pkgVars, mutexVars, formVars, mapVars>>

\* convertPending, one turn of the loop, as the calls it makes: the caller
\* holds the critical section, the entry's range is added to the ranges
\* section, then convertToRanges adds the patches under
\* DebugInfoPatcherMutex.
ConvertPendingEntryCall(u) ==
  /\ phase = "units" /\ pc[u] = "flushPending"
  /\ LET d == DeclOf(CurDie(u)) IN
       /\ flushIdx <= Len(PendingRanges[d])
       /\ LET e == PendingRanges[d][flushIdx] IN
            /\ RangesSection' = convertSection(RangesSection, <<e.range>>)
            /\ appending' = [appending EXCEPT ![u] =
                 [@ EXCEPT !.queue =
                      <<Call("convertToRanges", TRUE,
                             Annotate(convertToRangesPatches(
                                        getRangeAttrData(e.die, DieAt(e.die)),
                                        convertOffset(RangesSection, <<e.range>>),
                                        RangeBase[PatcherOf(u)], NoBase),
                                      e.die, "ranges"))>>,
                    !.to = PatcherOf(u), !.decl = <<>>, !.abbrev = <<>>,
                    !.after = "flushPending"]]
  /\ flushIdx' = flushIdx + 1
  /\ pc' = [pc EXCEPT ![u] = "patch"]
  /\ UNCHANGED <<parallel, phase, SplitCU, walkDwo, cur, visited, dies, lowpcDies,
                 CriticalSectionMutex, ConvertedRangesAbbrevs,
                 PendingRanges, RangeBase, AbbrevPatches, AddrTable, Patches, locVars,
                 bytesCase, finVars, DebugInfoPatcherMutex, walkVars, nameVars, entryVars,
                 abbrevVars, pkgVars, mutexVars, formVars, mapVars>>

\* ===================================================== after the tasks
\* Variant: finalization does not wait for the tasks.
AllDoneUnwaited == TRUE
\* ThreadPool.wait() has returned, or the sequential loop has ended.
AllDone == \A u \in Units : pc[u] = "done"

\* The pending entries in the order flushPendingRanges visits them, for an
\* order of the map's keys.
RECURSIVE entriesInOrder(_, _)
entriesInOrder(P, keys) ==
  IF keys = <<>> THEN <<>> ELSE P[Head(keys)] \o entriesInOrder(P, Tail(keys))

PendingKeys == {d \in Decls : PendingRanges[d] # <<>>}
\* The orders in which an unordered_map with keys K may be iterated.
RECURSIVE KeyOrders(_)
KeyOrders(K) ==
  IF K = {} THEN {<<>>}
  ELSE UNION {{<<x>> \o s : s \in KeyOrders(K \ {x})} : x \in K}

\* The pending list after clearList(PendingRanges).
clearPending(P) == [d \in Decls |-> <<>>]

\* The patchers after flushPendingRanges visited the entries in this order.
flushPatches(P, entries) == patchLowHighAll(P, entries, dies, AddrTable)

\* flushPendingRanges: every remaining entry is patched low/high, then the
\* list is cleared.
FlushPendingRanges ==
  /\ phase = "units" /\ AllDone
  /\ \E keys \in KeyOrders(PendingKeys) :
       Patches' = flushPatches(Patches, entriesInOrder(PendingRanges, keys))
  /\ PendingRanges' = clearPending(PendingRanges)
  /\ phase' = "flushed"
  /\ UNCHANGED <<parallel, pc, SplitCU, walkDwo, cur, visited, dies, lowpcDies,
                 CriticalSectionMutex, flushIdx, ConvertedRangesAbbrevs, RangeBase,
                 RangesSection, AbbrevPatches, AddrTable, locVars, bytesCase, finVars, lockVars, walkVars, nameVars, entryVars, abbrevVars, pkgVars, mutexVars, formVars, mapVars>>

\* ----------------------------------------------------------- .gdb_index
\* The sizes of the .gdb_index format the code relies on: the header of six
\* 32-bit fields, a CU-list entry (offset, length), an address-table entry
\* (low, high, CU index).
GdbHeaderSize == 24
GdbCUEntrySize == 16
GdbAddrEntrySize == 20

\* support::endian::write32le / write64le: v in n little-endian bytes.
RECURSIVE writeLE(_, _)
writeLE(v, n) == IF n = 0 THEN <<>> ELSE <<v % 256>> \o writeLE(v \div 256, n - 1)
\* support::endian::read32le / read64le at Data + off.
RECURSIVE readLE(_, _, _)
readLE(data, off, n) ==
  IF n = 0 THEN 0 ELSE data[off + 1] + 256 * readLE(data, off + 1, n - 1)
read32le(data, off) == readLE(data, off, SecOffsetSize)
read64le(data, off) == readLE(data, off, AddrSize)
write32le(v) == writeLE(U32(v), SecOffsetSize)
write64le(v) == writeLE(v, AddrSize)
\* memcpy(..., data + off, len)
Bytes(data, off, len) == SubSeq(data, off + 1, off + len)

\* The header fields of an index.
GdbVersion(data) == read32le(data, 0)
GdbCUListOffset(data) == read32le(data, 4)
GdbCUTypesOffset(data) == read32le(data, 8)
GdbAddressTableOffset(data) == read32le(data, 12)
GdbSymbolTableOffset(data) == read32le(data, 16)
GdbConstantPoolOffset(data) == read32le(data, 20)

\* Version != 7 && Version != 8 is fatal.
versionSupported(Version) == Version = 7 \/ Version = 8

\* The offset stored in CU-list entry Index (from 0).
GdbCUListEntry(data, Index) == read64le(data, GdbHeaderSize + GdbCUEntrySize * Index)

\* Variant: the CU list is verified against the first unit only.
cuListMatchesFirst(data, cus) == GdbCUListEntry(data, 0) = cus[1]

\* The verification loop: entry Index holds the offset of unit Index.
cuListMatches(data, cus) ==
  \A Index \in 0 .. Len(cus) - 1 : GdbCUListEntry(data, Index) = cus[Index + 1]

\* Variant: every range is given the index of the first unit.
offsetToIndexFirst(cus, offset) == 0

\* OffsetToIndexMap[offset] after the verification loop; operator[] of a
\* missing key gives 0.
offsetToIndex(cus, offset) ==
  IF \E k \in 1 .. Len(cus) : cus[k] = offset
    THEN (CHOOSE k \in 1 .. Len(cus) : cus[k] = offset /\ \A m \in k + 1 .. Len(cus) : cus[m] # offset) - 1
    ELSE 0

\* The keys of the std::map of the arange writer, in its iteration order.
RECURSIVE sortedKeys(_)
sortedKeys(K) ==
  IF K = {} THEN <<>>
  ELSE LET m == CHOOSE k \in K : \A o \in K : k <= o IN <<m>> \o sortedKeys(K \ {m})

RECURSIVE newAddressTableSizeShort(_, _)
\* Variant: the table is sized with 16 bytes an entry.
newAddressTableSizeShort(cuRanges, keys) ==
  IF keys = <<>> THEN 0
  ELSE Len(cuRanges[Head(keys)]) * GdbCUEntrySize + newAddressTableSizeShort(cuRanges, Tail(keys))

\* NewAddressTableSize: 20 bytes for every retained range.
RECURSIVE newAddressTableSize(_, _)
newAddressTableSize(cuRanges, keys) ==
  IF keys = <<>> THEN 0
  ELSE Len(cuRanges[Head(keys)]) * GdbAddrEntrySize + newAddressTableSize(cuRanges, Tail(keys))

\* The entries written for the ranges of one unit.
RECURSIVE addressEntries(_, _)
addressEntries(Ranges, CUIndex) ==
  IF Ranges = <<>> THEN <<>>
  ELSE write64le(Head(Ranges).LowPC) \o write64le(Head(Ranges).HighPC)
         \o write32le(CUIndex) \o addressEntries(Tail(Ranges), CUIndex)
\* The new address table.
RECURSIVE newAddressTable(_, _, _)
newAddressTable(cuRanges, keys, cus) ==
  IF keys = <<>> THEN <<>>
  ELSE addressEntries(cuRanges[Head(keys)], offsetToIndex(cus, Head(keys)))
         \o newAddressTable(cuRanges, Tail(keys), cus)

\* updateGdbIndexSection on the index data, the offsets cus of the compile
\* units in order and the ranges of the arange writer: fatal, or the
\* contents of the new section.
updateGdbIndex(data, cus, cuRanges) ==
  LET CUListSize == GdbCUTypesOffset(data) - GdbCUListOffset(data)
      keys == sortedKeys(DOMAIN cuRanges)
      OldAddressTableSize == GdbSymbolTableOffset(data) - GdbAddressTableOffset(data)
      NewAddressTableSize == newAddressTableSize(cuRanges, keys)
      Delta == NewAddressTableSize - OldAddressTableSize
      Data == GdbHeaderSize + GdbCUEntrySize * Len(cus)
                + GdbSymbolTableOffset(data) - GdbCUTypesOffset(data)
  IN IF ~versionSupported(GdbVersion(data)) THEN [fatal |-> "version", out |-> <<>>]
     ELSE IF CUListSize # Len(cus) * GdbCUEntrySize THEN [fatal |-> "count", out |-> <<>>]
     ELSE IF ~cuListMatches(data, cus) THEN [fatal |-> "offset", out |-> <<>>]
     ELSE [fatal |-> "no",
           out |-> write32le(GdbVersion(data)) \o write32le(GdbCUListOffset(data))
                   \o write32le(GdbCUTypesOffset(data))
                   \o write32le(GdbAddressTableOffset(data))
                   \o write32le(GdbSymbolTableOffset(data) + Delta)
                   \o write32le(GdbConstantPoolOffset(data) + Delta)
                   \o Bytes(data, GdbHeaderSize,
                            GdbAddressTableOffset(data) - GdbCUListOffset(data))
                   \o newAddressTable(cuRanges, keys, cus)
                   \o Bytes(data, Data, Len(data) - Data)]

\* The offsets of the compile units, in the order of getUnitAtIndex.
CUOffsets == [u \in Units |-> CUOffsetOf(u)]

\* A well-formed version 7 index of a binary with the given unit offsets:
\* section-relative offsets, no type units, one old address entry, four
\* bytes of symbol table and four of constant pool.
RECURSIVE cuListBytes(_)
cuListBytes(cus) ==
  IF cus = <<>> THEN <<>>
  ELSE writeLE(Head(cus), AddrSize) \o writeLE(DieStride, AddrSize) \o cuListBytes(Tail(cus))
Filler(n, b) == [k \in 1 .. n |-> b]
GdbIndexOf(version, base, cus, types, old, sym, pool) ==
  LET CUTypesOffset == base + Len(cus) * GdbCUEntrySize
      AddressTableOffset == CUTypesOffset + types * 3 * AddrSize
      SymbolTableOffset == AddressTableOffset + old * GdbAddrEntrySize
      ConstantPoolOffset == SymbolTableOffset + sym
  IN writeLE(version, 4) \o writeLE(base, 4) \o writeLE(CUTypesOffset, 4)
       \o writeLE(AddressTableOffset, 4) \o writeLE(SymbolTableOffset, 4)
       \o writeLE(ConstantPoolOffset, 4)
       \o cuListBytes(cus) \o Filler(types * 3 * AddrSize, 171)
       \o Filler(old * GdbAddrEntrySize, 205) \o Filler(sym, 239) \o Filler(pool, 254)

\* The contents of the input's .gdb_index: no index, a well-formed one, one
\* of an unsupported version.
FinalGdbIndexes ==
  {<<>>, GdbIndexOf(7, GdbHeaderSize, CUOffsets, 0, 1, 4, 4),
   GdbIndexOf(9, GdbHeaderSize, CUOffsets, 0, 1, 4, 4)}

\* The section has not been looked up yet.
GdbUnread == <<-1>>
\* BC.getGdbIndexSection(): the input's section; the whole run meets it in
\* finalizeDebugSections for the first time.
getGdbIndexSection(index) == IF index = GdbUnread THEN FinalGdbIndexes ELSE {index}

\* ------------------------------------------- finalizeDebugSections
\* DebugStrWriter / DebugAddrWriter::isInitialized(): something was added.
StrInitialized(str) == str > 0
AddrInitialized(tab) == \E u \in Units : tab[u] # {}
\* Bytes of the table of one split unit in .debug_addr: a slot for every
\* index up to the highest one registered.
AddrTableBytes(t) ==
  IF t = {} THEN 0
  ELSE AddrSize * (1 + CHOOSE k \in {e[1] : e \in t} : \A e \in t : e[1] <= k)
\* DebugAddrWriter::getOffset(DWOId) after finalize: the tables of the units
\* with a DWO id are laid out in compile-unit order; a unit without
\* addresses gets the running offset too.
RECURSIVE AddrOffsetOf(_, _, _)
AddrOffsetOf(tab, ids, u) ==
  IF u = 1 THEN 0
  ELSE AddrOffsetOf(tab, ids, u - 1)
         + (IF ids[u - 1] # NoDWOId THEN AddrTableBytes(tab[u - 1]) ELSE 0)
\* The DW_AT_GNU_addr_base patches: one for every compile unit whose unit
\* DIE has the attribute, that is every skeleton, in compile-unit order.
RECURSIVE addrBasePatches(_, _, _)
addrBasePatches(tab, ids, u) ==
  IF u > NumUnits THEN <<>>
  ELSE (IF ids[u] # NoDWOId
          THEN Annotate(<<LE32Patch(AddrBaseOffsetOf(u), AddrOffsetOf(tab, ids, u))>>,
                        UnitDie(u), "addrBase")
          ELSE <<>>)
       \o addrBasePatches(tab, ids, u + 1)

\* .debug_aranges is written unless .gdb_index is going to be regenerated.
WritesARanges(KeepARanges, index) == KeepARanges \/ index = <<>>

\* finalizeDebugSections, the arange section; opts::KeepARanges is read here
\* and nowhere else.
FinalizeARanges ==
  /\ phase = "flushed"
  /\ \E KeepARanges \in BOOLEAN, index \in getGdbIndexSection(GdbIndex) :
       /\ GdbIndex' = index
       /\ Registered' = IF WritesARanges(KeepARanges, index)
                          THEN Append(Registered, ".debug_aranges")
                          ELSE Registered
  /\ phase' = "aranges"
  /\ UNCHANGED <<parallel, pc, SplitCU, walkDwo, cur, visited, rangeVars, Patches,
                 locVars, bytesCase, opts, NDEBUG, DWOId, StrSection,
                 CUAddressRanges, Exit, DWOFiles, DWP, NewGdbIndex, lockVars, walkVars, nameVars, entryVars, abbrevVars, pkgVars, mutexVars, formVars, mapVars>>

\* finalizeDebugSections, the string pool, the address table with the
\* address-base patches of the skeletons, and the ranges section.
FinalizeStrAddrRanges ==
  /\ phase = "aranges"
  /\ Registered' = Registered
       \o (IF StrInitialized(StrSection) THEN <<".debug_str">> ELSE <<>>)
       \o (IF AddrInitialized(AddrTable) THEN <<".debug_addr">> ELSE <<>>)
       \o <<".debug_ranges">>
  /\ Patches' = IF AddrInitialized(AddrTable)
                  THEN [Patches EXCEPT ![TopPatcher] = @ \o addrBasePatches(AddrTable, DWOId, 1)]
                  ELSE Patches
  /\ phase' = "sections"
  /\ UNCHANGED <<parallel, pc, SplitCU, walkDwo, cur, visited, rangeVars,
                 locVars, bytesCase, opts, NDEBUG, DWOId, StrSection,
                 CUAddressRanges, Exit, DWOFiles, DWP, GdbIndex, NewGdbIndex,
                 lockVars, walkVars, nameVars, entryVars, abbrevVars, pkgVars, mutexVars, formVars, mapVars>>

\* The run as far as the address ranges of subprograms are concerned.
Next ==
  \/ \E u \in Units : StartUnit(u)
  \/ \E u \in Units : EndWalk(u)
  \/ \E u \in Units : VisitSubprogram(u)
  \/ \E u \in Units : ConvertPendingBegin(u)
  \/ \E u \in Units : ConvertPendingEntry(u)
  \/ \E u \in Units : ConvertPendingEnd(u)
  \/ \E u \in Units : ConvertToRanges(u)
  \/ \E u \in Units : AddToPending(u)
  \/ FlushPendingRanges

Spec == Init /\ [][Next]_vars

\* The walks with subprograms and with other DIEs that hold a low_pc. The
\* k-th such DIE of a unit lies at the entry of the unit's k-th subprogram:
\* both hold the input address InputAddressOf and, in a split unit, refer to
\* the address slot IndexLOf.
NextAddr ==
  \/ Next
  \/ \E u \in Units : VisitLowPC(u)

SpecAddr == Init /\ [][NextAddr]_vars

\* The same walks over split units whose producer wrote DW_AT_low_pc in
\* either of the forms getRangeAttrData takes for it.
InitSplitForms ==
  /\ parallel \in BOOLEAN
  /\ SplitCU \in [Units -> BOOLEAN]
  /\ StartState /\ DWONames = <<>> /\ entryWalk = NoEntries
  /\ DWOSections = NoSections
  /\ SplitLowPCForm \in LowForms
  /\ InitPlain
  /\ bytesCase = IdleBytesCase

SpecSplitForms == InitSplitForms /\ [][NextAddr]_vars

\* ================================================= location lists
\* Bytes of the empty list makeFinalLocListsSection writes first.
ReservedEmptyListSize == 16
\* DebugLocWriter::EmptyListOffset and DebugLocWriter::EmptyListTag.
EmptyListOffset == 0
EmptyListTag == -1

\* What the decoding and translation of a location list may yield: a decode
\* error, an empty input list, no function containing its first address, or
\* a translated list of k entries (k = 0: translated to an empty list).
LocOutcomes == {"error", "emptyInput", "noFunction", "translated"}
LocEntryCounts == {0, 1, 2}

\* DebugLocWriter::addList: bytes a list of k entries takes in the writer's
\* buffer (per entry two addresses, a 2-byte length and a 1-byte expression;
\* a terminating pair), the offset it returns and the writer's size after.
LocListBytes(k) == (2 * AddrSize + 3) * k + 2 * AddrSize
addList(size, k) == IF k = 0 THEN EmptyListTag ELSE size
sizeAfterAddList(size, k) == IF k = 0 THEN size ELSE size + LocListBytes(k)

\* The CUIndex processUnitDIE is called with, and the CUIndex argument of
\* the walk task u is in: the DWO id for the split unit.
CUIndexOf(u) == IF parallel THEN u - 1 ELSE 0
WalkKey(u) == IF walkDwo[u] THEN DwoKey(u) ELSE CUIndexOf(u)

\* Offset of the DW_AT_location value of location DIE i.
LocAttrOffsetOf(i) == LowPCOffsetOf(i) + DieStride - SecOffsetSize

\* Variant: the empty-list patch is recorded whatever the writer returned.
directLocPatchesAlways(AttrOffset, OutputLocListOffset, i) ==
  Annotate(<<LE32Patch(AttrOffset, EmptyListOffset)>>, i, "locEmpty")

\* else-branch of the walk: the direct patch with the empty-list offset.
directLocPatches(AttrOffset, OutputLocListOffset, i) ==
  IF OutputLocListOffset # EmptyListTag THEN <<>>
  ELSE Annotate(<<LE32Patch(AttrOffset, EmptyListOffset)>>, i, "locEmpty")

\* then-branch: the deferred patch {AttrOffset, CUIndex, OutputLocListOffset}
\* (die notes the DIE it was recorded for).
deferredLocPatches(AttrOffset, CUIndex, OutputLocListOffset, i) ==
  IF OutputLocListOffset = EmptyListTag THEN <<>>
  ELSE <<[DebugInfoOffset |-> AttrOffset, CUIndex |-> CUIndex,
          CUWriterOffset |-> OutputLocListOffset, die |-> i]>>

\* What the walk records for a DIE whose DW_AT_location is a
\* location-list offset: the list goes to the unit's writer, then the
\* deferred patch is queued or the empty-list patch is recorded.
LocationEffect(u, outcome, k) ==
  LET i == <<u, Len(locDies[u]) + 1>>
      CUIndex == WalkKey(u)
      OutputLocListOffset ==
        IF outcome = "translated" THEN addList(LocWriterSize[CUIndex], k)
        ELSE EmptyListTag
      deferred == deferredLocPatches(LocAttrOffsetOf(i), CUIndex,
                                     OutputLocListOffset, i)
  IN /\ locDies' = [locDies EXCEPT ![u] =
           Append(@, [outcome |-> outcome, k |-> k, key |-> CUIndex,
                      dwo |-> walkDwo[u], local |-> OutputLocListOffset])]
     /\ LocWriterSize' =
          IF outcome = "translated"
            THEN [LocWriterSize EXCEPT ![CUIndex] = sizeAfterAddList(@, k)]
            ELSE LocWriterSize
     /\ DwoLocListDebugInfoPatches' =
          IF walkDwo[u]
            THEN [DwoLocListDebugInfoPatches EXCEPT ![u] = @ \o deferred]
            ELSE DwoLocListDebugInfoPatches
     /\ LocListDebugInfoPatches' =
          IF walkDwo[u] THEN LocListDebugInfoPatches
          ELSE LocListDebugInfoPatches \o deferred
     /\ Patches' = [Patches EXCEPT ![PatcherOf(u)] =
          @ \o directLocPatches(LocAttrOffsetOf(i), OutputLocListOffset, i)]

\* A DIE whose DW_AT_location is a location-list offset.
VisitLocation(u) ==
  /\ pc[u] = "walk" /\ visited < MaxDIEs
  /\ HasChildren(u)
  /\ \E outcome \in LocOutcomes, k \in LocEntryCounts :
       /\ outcome # "translated" => k = 0
       /\ LocationEffect(u, outcome, k)
  /\ visited' = visited + 1
  /\ UNCHANGED <<parallel, phase, pc, SplitCU, walkDwo, cur, rangeVars, LocOrder,
                 SectionOffsetByCU, LoclistFinalized, bytesCase, finVars, lockVars,
                 walkVars, nameVars, entryVars, abbrevVars, pkgVars, mutexVars, formVars, mapVars>>

\* The same DIE with a translated list, in two steps: the task takes
\* LocListDebugInfoPatchesMutex (line 502) ...
EnterLocListPatches(u) ==
  /\ phase = "units" /\ pc[u] = "walk" /\ visited < MaxDIEs
  /\ HasChildren(u)
  /\ LocListDebugInfoPatchesMutex = 0
  /\ LocListDebugInfoPatchesMutex' = u
  /\ pc' = [pc EXCEPT ![u] = "locList"]
  /\ UNCHANGED <<parallel, phase, SplitCU, walkDwo, cur, visited, rangeVars, Patches,
                 locVars, bytesCase, finVars, lockVars, walkVars, nameVars, entryVars,
                 abbrevVars, pkgVars, formVars, mapVars>>

\* ... and queues the deferred patch; the lock_guard gives the mutex back.
LeaveLocListPatches(u) ==
  /\ phase = "units" /\ pc[u] = "locList"
  /\ \E k \in LocEntryCounts \ {0} : LocationEffect(u, "translated", k)
  /\ LocListDebugInfoPatchesMutex' = afterLockGuard(LocListDebugInfoPatchesMutex)
  /\ pc' = [pc EXCEPT ![u] = "walk"]
  /\ visited' = visited + 1
  /\ UNCHANGED <<parallel, phase, SplitCU, walkDwo, cur, rangeVars, LocOrder,
                 SectionOffsetByCU, LoclistFinalized, bytesCase, finVars, lockVars,
                 walkVars, nameVars, entryVars, abbrevVars, pkgVars, formVars, mapVars>>

\* The tasks of a parallel run on any skeletons and plain units, their
\* subprograms and translated location lists included, one lock a step;
\* the unit DIEs are given their new names only.
NextRace ==
  \/ \E u \in Units : BeginUnit(u)
  \/ \E u \in Units : UpdateCompDir(u)
  \/ \E u \in Units : EnterSplitUnit(u)
  \/ \E u \in Units : EnterPatch(u)
  \/ \E u \in Units : LeavePatch(u)
  \/ \E u \in Units : phase = "units" /\ EndWalk(u)
  \/ \E u \in Units : phase = "units" /\ VisitSubprogram(u)
  \/ \E u \in Units : phase = "units" /\ ConvertPendingBegin(u)
  \/ \E u \in Units : ConvertPendingEntryCall(u)
  \/ \E u \in Units : phase = "units" /\ ConvertPendingEnd(u)
  \/ \E u \in Units : phase = "units" /\ AddToPending(u)
  \/ \E u \in Units : ConvertToRangesCall(u)
  \/ \E u \in Units : EnterLocListPatches(u)
  \/ \E u \in Units : LeaveLocListPatches(u)
  \/ FlushPendingRanges

InitRace ==
  /\ parallel = TRUE
  /\ SplitCU \in [Units -> BOOLEAN]
  /\ InitState
  /\ InitPlain
  /\ bytesCase = IdleBytesCase

SpecRace == InitRace /\ [][NextRace]_vars

\* What the task of unit u can do next.
TaskStep(u) ==
  \/ BeginUnit(u)
  \/ UpdateCompDir(u)
  \/ EnterSplitUnit(u)
  \/ EnterPatch(u)
  \/ LeavePatch(u)
  \/ phase = "units" /\ EndWalk(u)
  \/ phase = "units" /\ VisitSubprogram(u)
  \/ phase = "units" /\ ConvertPendingBegin(u)
  \/ ConvertPendingEntryCall(u)
  \/ phase = "units" /\ ConvertPendingEnd(u)
  \/ phase = "units" /\ AddToPending(u)
  \/ ConvertToRangesCall(u)
  \/ EnterLocListPatches(u)
  \/ LeaveLocListPatches(u)

\* The pool runs every task it was given, a task that can take a step
\* takes one, and the main thread goes on once ThreadPool.wait returns.
SpecRaceFair ==
  /\ SpecRace
  /\ \A u \in Units : WF_vars(TaskStep(u))
  /\ WF_vars(FlushPendingRanges)

\* The writers LocListWritersByCU holds: one per compile-unit index, and one
\* per split unit whose task has created it.
WriterKeys == CUKeys \cup {DwoKey(u) : u \in {v \in Units : SplitCU[v] /\ pc[v] # "start"}}

\* Variant: no writer is taken to be a split unit's.
isLoclistWriterNever(key) == FALSE

\* llvm::isa<DebugLoclistWriter>(*LocWriter): the writer of a split unit.
isLoclistWriter(key) == key >= NumUnits

\* The loop over LocListWritersByCU: each writer that is not a split unit's
\* gets the running section offset, which then grows by its buffer's size.
RECURSIVE concatOffsets(_, _, _, _)
concatOffsets(order, sizes, SectionOffset, byCU) ==
  IF order = <<>> THEN byCU
  ELSE IF isLoclistWriter(Head(order))
    THEN concatOffsets(Tail(order), sizes, SectionOffset, byCU)
    ELSE concatOffsets(Tail(order), sizes, SectionOffset + sizes[Head(order)],
                       [byCU EXCEPT ![Head(order)] = SectionOffset])

\* The keys of the writers whose buffers the loop wrote, in order.
RECURSIVE concatenated(_)
concatenated(order) ==
  IF order = <<>> THEN <<>>
  ELSE IF isLoclistWriter(Head(order)) THEN concatenated(Tail(order))
  ELSE <<Head(order)>> \o concatenated(Tail(order))

\* Per set of keys the map may hold: the sequences of written writers that
\* the map's iteration orders give (the loop passes over a skipped writer
\* without any effect).
WrittenOrders == [K \in SUBSET LocKeys |-> {concatenated(order) : order \in KeyOrders(K)}]

\* Variant: the writer's section offset alone is taken as the list's offset.
resolvedValueBaseOnly(byCU, Patch) == byCU[Patch.CUIndex]

\* SectionOffsetByCU[Patch.CUIndex] + Patch.CUWriterOffset
resolvedValue(byCU, Patch) == byCU[Patch.CUIndex] + Patch.CUWriterOffset

\* The patches the deferred entries of one list resolve to.
resolvedPatches(list, byCU) ==
  [k \in 1 .. Len(list) |->
     Annotate(<<LE32Patch(list[k].DebugInfoOffset, resolvedValue(byCU, list[k]))>>,
              list[k].die, "locList")[1]]

\* The writers of a concatenation order that contribute bytes: an empty
\* buffer has no place in the section.
nonEmptyOf(written, sizes) ==
  LET NonEmpty(k) == sizes[k] > 0 IN SelectSeq(written, NonEmpty)

\* makeFinalLocListsSection: the reserved empty list, the writers' buffers in
\* the map's iteration order, then the deferred patches of every split unit
\* (into its own patcher) and of the top-level units.
MakeFinalLocListsSection ==
  /\ phase = "sections"
  /\ \E loop \in {[byCU |-> concatOffsets(written, LocWriterSize, ReservedEmptyListSize,
                                           [k \in LocKeys |-> 0]),
                    written |-> nonEmptyOf(written, LocWriterSize)] :
                     written \in WrittenOrders[WriterKeys]} :
       /\ LocOrder' = loop.written
       /\ SectionOffsetByCU' = loop.byCU
       /\ Patches' = [p \in PatcherIds |->
            Patches[p] \o
              (IF p = TopPatcher
                 THEN resolvedPatches(LocListDebugInfoPatches, loop.byCU)
                 ELSE resolvedPatches(DwoLocListDebugInfoPatches[p], loop.byCU))]
  /\ Registered' = Append(Registered, ".debug_loc")
  /\ phase' = "locs"
  /\ UNCHANGED <<parallel, pc, SplitCU, walkDwo, cur, visited, rangeVars, locDies,
                 LocWriterSize, LocListDebugInfoPatches, DwoLocListDebugInfoPatches,
                 LoclistFinalized, bytesCase, opts, NDEBUG, DWOId, StrSection, CUAddressRanges, Exit,
                 DWOFiles, DWP, GdbIndex, NewGdbIndex, lockVars, walkVars, nameVars, entryVars, abbrevVars, pkgVars, mutexVars, formVars, mapVars>>

\* The run as far as location lists are concerned.
NextLoc ==
  \/ \E u \in Units : StartUnit(u)
  \/ \E u \in Units : EndWalk(u)
  \/ \E u \in Units : VisitLocation(u)
  \/ FlushPendingRanges
  \/ FinalizeARanges
  \/ FinalizeStrAddrRanges
  \/ MakeFinalLocListsSection

SpecLoc == Init /\ [][NextLoc]_vars

\* ======================================== the end of updateDebugInfo
\* CU->getAbbreviationsOffset() of unit k, compile or type unit: the tables
\* lie in unit order in the input .debug_abbrev.
OldAbbrevOffsetOf(k) == DieStride * (k - 1)
\* AbbrevWriter->getAbbreviationsOffsetForUnit(CU) of a unit whose
\* abbreviation table has moved.
NewAbbrevOffsetOf(u) == DieStride * u

\* The type units of .debug_types follow the compile units in
\* normal_units(); they are numbered behind them, and their offsets count
\* from the start of their own section.
TypeUnits == NumUnits + 1 .. NumUnits + NumTypeUnits
TypeUnitOffsetOf(t) == 2 * DieStride * (t - NumUnits - 1)

\* A unit of normal_units() as the loop reads it: isTypeUnit(),
\* getOffset(), getAbbreviationsOffset() and the abbreviation writer's
\* getAbbreviationsOffsetForUnit().
NormalUnit(k, moved) ==
  [unit |-> k, type |-> k \in TypeUnits,
   offset |-> IF k \in TypeUnits THEN TypeUnitOffsetOf(k) ELSE CUOffsetOf(k),
   old |-> OldAbbrevOffsetOf(k),
   new |-> IF k \in moved THEN NewAbbrevOffsetOf(k) ELSE OldAbbrevOffsetOf(k)]

\* The sets of compile units whose abbreviation table may have moved: the
\* tables are laid out in unit order and a rewritten declaration never
\* shrinks, so the first table stays and a table behind a moved one has
\* moved too. The table of a type unit is found moved or not.
MovedSets ==
  {{u \in Units : u >= k} \cup t : k \in 2 .. NumUnits + 1, t \in SUBSET TypeUnits}

NormalUnitsOf(moved) == [k \in 1 .. NumUnits + NumTypeUnits |-> NormalUnit(k, moved)]

\* Variant: the header of every unit is patched.
AbbrevOffsetChangedAlways(CU) == TRUE

\* if (CU->getAbbreviationsOffset() == NewAbbrevOffset) continue;
AbbrevOffsetChanged(CU) == CU.old # CU.new

\* addLE32Patch(CU->getOffset() + AbbrevFieldOffset,
\*              static_cast<uint32_t>(NewAbbrevOffset))
headerPatch(CU) ==
  Annotate(<<LE32Patch(CU.offset + AbbrevFieldOffset, CU.new)>>, UnitDie(CU.unit),
           "abbrevOffset")

\* The unit-header patches of finalizeDebugSections for the units from the
\* k-th on: those of the compile units (types = FALSE) go to
\* DebugInfoPatcher, those of the type units to DebugTypesPatcher.
RECURSIVE abbrevOffsetPatches(_, _, _)
abbrevOffsetPatches(units, types, k) ==
  IF k > Len(units) THEN <<>>
  ELSE (IF AbbrevOffsetChanged(units[k]) /\ units[k].type = types
          THEN headerPatch(units[k])
          ELSE <<>>)
       \o abbrevOffsetPatches(units, types, k + 1)

\* DebugTypesPatcher is created and registered for .debug_types by the
\* first type unit whose header is patched.
typesPatcherOf(units) ==
  [registered |-> abbrevOffsetPatches(units, TRUE, 1) # <<>>,
   patches |-> abbrevOffsetPatches(units, TRUE, 1)]

\* finalizeDebugSections, the abbreviation section and the unit headers.
FinalizeAbbrev ==
  /\ phase = "locs"
  /\ Registered' = Append(Registered, ".debug_abbrev")
  /\ \E moved \in MovedSets :
       /\ NormalUnits' = NormalUnitsOf(moved)
       /\ Patches' = [Patches EXCEPT
                        ![TopPatcher] = @ \o abbrevOffsetPatches(NormalUnits', FALSE, 1)]
       /\ DebugTypesPatcher' = typesPatcherOf(NormalUnits')
  /\ phase' = "abbrev"
  /\ UNCHANGED <<parallel, pc, SplitCU, walkDwo, cur, visited, rangeVars,
                 locVars, bytesCase, opts, NDEBUG, DWOId, StrSection,
                 CUAddressRanges, Exit, DWOFiles, DWP, GdbIndex, NewGdbIndex,
                 lockVars, walkVars, nameVars, entryVars, pkgVars, mutexVars, formVars, mapVars>>

\* ------------------------------------------------ split-unit outputs
\* Variant: every unit with a DWO id is emitted.
EmitsSplitUnitUnloaded(ids, loaded, u) == ids[u] # NoDWOId
\* The loop of writeDWP and writeDWOFiles visits the compile units in
\* order and skips a unit without DWO id and one whose split unit failed
\* to load.
EmitsSplitUnit(ids, loaded, u) == ids[u] # NoDWOId /\ loaded[u]

\* IndexEntries.insert(...).second is false: the signature is in the index.
duplicateSignature(entries, sig) == \E k \in 1 .. Len(entries) : entries[k] = sig

\* writeDWP from unit u on, the index holding entries: a duplicate
\* signature prints BOLT-ERROR to errs() and returns before Out->keep().
RECURSIVE writeDWPFrom(_, _, _, _)
writeDWPFrom(ids, loaded, u, entries) ==
  IF u > NumUnits THEN [entries |-> entries, kept |-> TRUE, errs |-> FALSE]
  ELSE IF ~EmitsSplitUnit(ids, loaded, u) THEN writeDWPFrom(ids, loaded, u + 1, entries)
  ELSE IF duplicateSignature(entries, ids[u])
    THEN [entries |-> entries, kept |-> FALSE, errs |-> TRUE]
  ELSE writeDWPFrom(ids, loaded, u + 1, Append(entries, ids[u]))

\* createKnownSectionsMap: the section kind of a section name, NoKind
\* for a name that is not in the map. debug_str.dwo goes by its name.
NoKind == "none"
KnownSections(name) ==
  CASE name = "debug_info.dwo" -> "DW_SECT_INFO"
    [] name = "debug_types.dwo" -> "DW_SECT_EXT_TYPES"
    [] name = "debug_str_offsets.dwo" -> "DW_SECT_STR_OFFSETS"
    [] name = "debug_str.dwo" -> "DW_SECT_EXT_unknown"
    [] name = "debug_loc.dwo" -> "DW_SECT_EXT_LOC"
    [] name = "debug_abbrev.dwo" -> "DW_SECT_ABBREV"
    [] name = "debug_line.dwo" -> "DW_SECT_EXT_unknown"
    [] OTHER -> NoKind

\* The kinds ContributionOffsets and CurEntry.Contributions are indexed by.
ContributionKinds ==
  {"DW_SECT_INFO", "DW_SECT_EXT_TYPES", "DW_SECT_STR_OFFSETS", "DW_SECT_EXT_LOC",
   "DW_SECT_ABBREV"}

\* uint32_t ContributionOffsets[8] = {} and UnitIndexEntry CurEntry = {}.
NoContributionOffsets == [K \in ContributionKinds |-> 0]
NoContributions == [K \in ContributionKinds |-> [Offset |-> 0, Length |-> 0]]

\* CurEntry.Contributions[Index].Offset = ContributionOffsets[Index];
\* CurEntry.Contributions[Index].Length = OutData.size();
contributionOf(Contributions, ContributionOffsets, Index, size) ==
  [Offset |-> ContributionOffsets[Index], Length |-> U32(size)]

\* The loop over the sections of one split unit's file from the k-th on:
\* updateDebugData returns None for a name that is not a known section,
\* debug_str.dwo is kept for the string pool, every other section is given
\* a contribution and advances the cursor of its kind. size is the size of
\* the data updateDebugData returns for the section.
RECURSIVE sectionsFrom(_, _, _)
sectionsFrom(sections, k, st) ==
  IF k > Len(sections) THEN st
  ELSE LET Name == sections[k].name
           Index == KnownSections(Name)
       IN IF Index = NoKind \/ Name = "debug_str.dwo" THEN sectionsFrom(sections, k + 1, st)
          ELSE LET entry == contributionOf(st.Contributions, st.ContributionOffsets, Index,
                                           sections[k].size)
               IN sectionsFrom(sections, k + 1,
                    [Contributions |-> [st.Contributions EXCEPT ![Index] = entry],
                     ContributionOffsets |->
                       [st.ContributionOffsets EXCEPT ![Index] = U32(@ + entry.Length)]])

\* IndexEntries of writeDWP from unit u on: the loop of writeDWPFrom, with
\* the contributions of every emitted unit. A duplicate signature returns
\* before writeIndex.
RECURSIVE indexEntriesFrom(_, _, _, _, _, _)
indexEntriesFrom(files, ids, loaded, u, ContributionOffsets, entries) ==
  IF u > NumUnits THEN entries
  ELSE IF ~EmitsSplitUnit(ids, loaded, u)
    THEN indexEntriesFrom(files, ids, loaded, u + 1, ContributionOffsets, entries)
  ELSE LET st == sectionsFrom(files[u], 1,
                   [Contributions |-> NoContributions,
                    ContributionOffsets |-> ContributionOffsets])
       IN IF \E k \in 1 .. Len(entries) : entries[k].Signature = ids[u] THEN <<>>
          ELSE indexEntriesFrom(files, ids, loaded, u + 1, st.ContributionOffsets,
                 Append(entries, [Signature |-> ids[u], Contributions |-> st.Contributions]))

\* if (opts::WriteDWP) writeDWP(DWOIdToName); the option is read here and
\* nowhere else.
WriteDWP ==
  /\ phase = "abbrev"
  /\ DWP' = writeDWPFrom(DWOId, SplitCU, 1, <<>>)
  /\ PkgIndex' = indexEntriesFrom(DWOSections, DWOId, SplitCU, 1, NoContributionOffsets, <<>>)
  /\ phase' = "dwo"
  /\ UNCHANGED <<parallel, pc, SplitCU, walkDwo, cur, visited, rangeVars, Patches,
                 locVars, bytesCase, opts, NDEBUG, DWOId, StrSection,
                 CUAddressRanges, Registered, Exit, DWOFiles, GdbIndex,
                 NewGdbIndex, lockVars, walkVars, nameVars, entryVars, abbrevVars,
                 DWOSections, mutexVars, formVars, mapVars>>

\* The DWO ids whose standalone file writeDWOFiles keeps.
writtenDWOFiles(ids, loaded) == {ids[u] : u \in {v \in Units : EmitsSplitUnit(ids, loaded, v)}}

\* else writeDWOFiles(DWOIdToName);
WriteDWOFiles ==
  /\ phase = "abbrev"
  /\ DWOFiles' = writtenDWOFiles(DWOId, SplitCU)
  /\ phase' = "dwo"
  /\ UNCHANGED <<parallel, pc, SplitCU, walkDwo, cur, visited, rangeVars, Patches,
                 locVars, bytesCase, opts, NDEBUG, DWOId, StrSection,
                 CUAddressRanges, Registered, Exit, DWP, GdbIndex,
                 NewGdbIndex, lockVars, walkVars, nameVars, entryVars, abbrevVars, pkgVars, mutexVars, formVars, mapVars>>

\* ------------------------------------------- updateGdbIndexSection
\* updateGdbIndexSection: nothing without a .gdb_index; else the process is
\* ended by exit(1), or the new section is registered.
UpdateGdbIndexSection ==
  /\ phase = "dwo"
  /\ IF GdbIndex = <<>>
       THEN /\ phase' = "done"
            /\ UNCHANGED <<Registered, NewGdbIndex, Exit>>
       ELSE LET r == updateGdbIndex(GdbIndex, CUOffsets, CUAddressRanges) IN
              IF r.fatal # "no"
                THEN /\ Exit' = "exit(1)"
                     /\ phase' = "exited"
                     /\ UNCHANGED <<Registered, NewGdbIndex>>
                ELSE /\ NewGdbIndex' = r.out
                     /\ Registered' = Append(Registered, ".gdb_index")
                     /\ phase' = "done"
                     /\ Exit' = Exit
  /\ UNCHANGED <<parallel, pc, SplitCU, walkDwo, cur, visited, rangeVars, Patches,
                 locVars, bytesCase, opts, NDEBUG, DWOId, StrSection,
                 CUAddressRanges, DWOFiles, DWP, GdbIndex, lockVars, walkVars, nameVars, entryVars, abbrevVars, pkgVars, mutexVars, formVars, mapVars>>

\* ------------------------------------------- .gdb_index regeneration alone
\* The unit DIE of a unit gave no ranges to the arange writer.
NoRanges == -1
GdbRangeCounts == {NoRanges, 0, 1, 2}
\* getCUAddressRanges() after the walks: addCURanges was called for the
\* units with a count, in unit order, with the module ranges of the unit.
RECURSIVE cuRangesOf(_, _)
cuRangesOf(counts, u) ==
  IF u = 0 THEN <<>>
  ELSE IF counts[u] = NoRanges THEN cuRangesOf(counts, u - 1)
  ELSE addCURanges(cuRangesOf(counts, u - 1), CUOffsetOf(u), ModuleRangesOf(u, counts[u]))
GdbCURanges == {cuRangesOf(c, NumUnits) : c \in [Units -> GdbRangeCounts]}

\* The unit offsets with the one of unit k off by one.
OffsetsWrongAt(k) == [u \in Units |-> IF u = k THEN CUOffsetOf(u) + 1 ELSE CUOffsetOf(u)]
\* The unit offsets followed by one more.
OffsetsAndOneMore == Append(CUOffsets, CUOffsetOf(NumUnits + 1))
\* Offsets counted from the start of the file.
FileBase == 1000
\* The contents of .gdb_index the regeneration is run on: versions 6 to 9;
\* section and file offsets; with and without a types CU list; an old
\* address table of no, one and three entries; a CU list a unit short and
\* one too long; a CU list with one wrong offset.
GdbIndexes ==
  {GdbIndexOf(v, GdbHeaderSize, CUOffsets, 0, 1, 4, 4) : v \in 6 .. 9}
    \cup {GdbIndexOf(8, FileBase, CUOffsets, 1, old, 4, 3) : old \in {0, 3}}
    \cup {GdbIndexOf(7, GdbHeaderSize, SubSeq(CUOffsets, 1, NumUnits - 1), 1, 1, 4, 4),
          GdbIndexOf(7, GdbHeaderSize, OffsetsAndOneMore, 0, 1, 4, 4)}
    \cup {GdbIndexOf(7, GdbHeaderSize, OffsetsWrongAt(k), 0, 3, 4, 4) : k \in Units}
    \cup {GdbIndexOf(9, FileBase, OffsetsWrongAt(1), 0, 0, 4, 4)}

\* updateDebugInfo has reached updateGdbIndexSection: a sequential run on
\* plain units whose sections are registered, with any of the index
\* contents and any ranges in the arange writer.
InitGdb ==
  /\ parallel = FALSE
  /\ SplitCU = [u \in Units |-> FALSE]
  /\ opts = PlainOpts(FALSE)
  /\ NDEBUG = TRUE
  /\ DWOId = [u \in Units |-> NoDWOId]
  /\ phase = "dwo"
  /\ pc = [u \in Units |-> "done"]
  /\ Registered = <<".debug_ranges", ".debug_loc", ".debug_abbrev">>
  /\ GdbIndex \in GdbIndexes
  /\ CUAddressRanges \in GdbCURanges
  /\ EmptyWriters
  /\ DWONames = <<>>
  /\ entryWalk = NoEntries
  /\ DWOSections = NoSections /\ SplitLowPCForm = "DW_FORM_GNU_addr_index"
  /\ bytesCase = IdleBytesCase

NextGdb == UpdateGdbIndexSection

SpecGdb == InitGdb /\ [][NextGdb]_vars

\* ------------------------------------------- the split-unit outputs alone
\* BC.getDWOCU(id) gives the same split unit to every skeleton naming id.
LoadedById(ids, loaded) ==
  \A u, v \in Units : ids[u] = ids[v] => loaded[u] = loaded[v]
\* Two skeletons name the same loaded split unit.
SharedDWOId(ids, loaded) ==
  \E u, v \in Units : u # v /\ ids[u] = ids[v] /\ EmitsSplitUnit(ids, loaded, u)
\* assert(LocListWritersByCU.count(*DWOId) == 0 && ...) in processUnitDIE:
\* a build with assertions does not get past the walks when two skeletons
\* name the same loaded split unit.
PassesUniqueDWOIdAssert(ndebug, ids, loaded) == ndebug \/ ~SharedDWOId(ids, loaded)

\* updateDebugInfo has finished finalizeDebugSections: a sequential run
\* without DIEs to patch, on any skeletons, with DWO ids that need not be
\* unique in a build without assertions.
InitDwp ==
  /\ parallel = FALSE
  /\ opts = PlainOpts(FALSE)
  /\ NDEBUG \in BOOLEAN
  /\ DWOId \in [Units -> Units \cup {NoDWOId}]
  /\ SplitCU \in [Units -> BOOLEAN]
  /\ \A u \in Units : SplitCU[u] => DWOId[u] # NoDWOId
  /\ LoadedById(DWOId, SplitCU)
  /\ PassesUniqueDWOIdAssert(NDEBUG, DWOId, SplitCU)
  /\ GdbIndex \in FinalGdbIndexes
  /\ phase = "abbrev"
  /\ pc = [u \in Units |-> "done"]
  /\ Registered = (IF WritesARanges(FALSE, GdbIndex) THEN <<".debug_aranges">> ELSE <<>>)
                    \o <<".debug_ranges", ".debug_loc", ".debug_abbrev">>
  /\ CUAddressRanges = <<>>
  /\ EmptyWriters
  /\ DWONames = <<>>
  /\ entryWalk = NoEntries
  /\ DWOSections = NoSections /\ SplitLowPCForm = "DW_FORM_GNU_addr_index"
  /\ bytesCase = IdleBytesCase

NextDwp == WriteDWP \/ WriteDWOFiles \/ UpdateGdbIndexSection

SpecDwp == InitDwp /\ [][NextDwp]_vars

\* ------------------------------------------------- the package index
\* Cap on the number of sections of a split unit's file.
MaxSections == 2
\* The sizes updateDebugData returns for a section: small ones, and one
\* that two sections of a kind cannot hold together in a uint32_t cursor.
LargeSectionSize == U32Modulus - 4
SectionSizes == {4, LargeSectionSize}
\* The sections of a split unit's file: known sections with a contribution,
\* the string section, and one writeDWP does not know. A file may hold
\* several sections of one name (type units in COMDAT groups).
SectionNames == {"debug_info.dwo", "debug_types.dwo", "debug_str_offsets.dwo",
                 "debug_str.dwo", "debug_frame"}
DWOFileSections == [name : SectionNames, size : SectionSizes]
RECURSIVE SectionSeqs(_)
SectionSeqs(n) ==
  IF n = 0 THEN {<<>>}
  ELSE SectionSeqs(n - 1)
         \cup {Append(q, x) : q \in {r \in SectionSeqs(n - 1) : Len(r) = n - 1},
                              x \in DWOFileSections}

\* updateDebugInfo has finished finalizeDebugSections: any skeletons with
\* unique DWO ids, loaded or not, and any sections in the files of the
\* loaded split units.
InitPkg ==
  /\ parallel = FALSE
  /\ opts = PlainOpts(FALSE)
  /\ NDEBUG = TRUE
  /\ DWOId \in [Units -> Units \cup {NoDWOId}]
  /\ \A u \in Units : DWOId[u] \in {NoDWOId, u}
  /\ SplitCU \in [Units -> BOOLEAN]
  /\ \A u \in Units : SplitCU[u] => DWOId[u] # NoDWOId
  /\ GdbIndex = <<>>
  /\ phase = "abbrev"
  /\ pc = [u \in Units |-> "done"]
  /\ Registered = <<".debug_ranges", ".debug_loc", ".debug_abbrev">>
  /\ CUAddressRanges = <<>>
  /\ EmptyWriters
  /\ DWONames = <<>>
  /\ entryWalk = NoEntries
  /\ bytesCase = IdleBytesCase
  /\ DWOSections \in [Units -> SectionSeqs(MaxSections)]
  /\ SplitLowPCForm = "DW_FORM_GNU_addr_index"
  /\ \A u \in Units : ~SplitCU[u] => DWOSections[u] = <<>>

NextPkg == WriteDWP \/ WriteDWOFiles

SpecPkg == InitPkg /\ [][NextPkg]_vars

\* ------------------------------------------------- the whole run
\* opts::NoThreads, opts::DeterministicDebugInfo and whether
\* opts::DwarfOutputPath is set.
Options ==
  [NoThreads : BOOLEAN, DeterministicDebugInfo : BOOLEAN, DwarfOutputPath : BOOLEAN]

\* Variant: the thread pool is used whatever the options say.
UsesThreadPoolAlways(o) == TRUE

\* if (opts::NoThreads || opts::DeterministicDebugInfo) ... else ThreadPool
UsesThreadPool(o) == ~(o.NoThreads \/ o.DeterministicDebugInfo)

\* Any options, any units: plain, skeleton with a loaded split unit, skeleton
\* whose split unit failed to load (DWO ids are unique, as processUnitDIE
\* asserts).
InitFinal ==
  /\ opts \in Options
  /\ parallel = UsesThreadPool(opts)
  /\ NDEBUG = TRUE
  /\ DWOId \in [Units -> Units \cup {NoDWOId}]
  /\ \A u \in Units : DWOId[u] \in {NoDWOId, u}
  /\ SplitCU \in [Units -> BOOLEAN]
  /\ \A u \in Units : SplitCU[u] => DWOId[u] # NoDWOId
  /\ GdbIndex = GdbUnread
  /\ InitState
  /\ bytesCase = IdleBytesCase

NextFinal ==
  \/ \E u \in Units : StartUnit(u)
  \/ \E u \in Units : VisitLowPC(u)
  \/ \E u \in Units : EndWalk(u)
  \/ FlushPendingRanges
  \/ FinalizeARanges
  \/ FinalizeStrAddrRanges
  \/ MakeFinalLocListsSection
  \/ FinalizeAbbrev
  \/ WriteDWP
  \/ WriteDWOFiles
  \/ UpdateGdbIndexSection

SpecFinal == InitFinal /\ [][NextFinal]_vars

\* ================================ convertToRanges on one DIE, all forms
\* The DIEs convertToRanges(DIE, offset, patcher, RangesBase) may be handed:
\* every low_pc and high_pc form, address indices of one to three ULEB128
\* bytes, with and without a ranges base, at two places of the section.
BytesIndices == {0, 127, 128, 20000}
BytesLowPCOffsets == {11, 200}
BytesRangesBases == {NoBase, 0, 48}
BytesPatcherBases == {0, 16}
BytesRangesOffsets == {0, 16, 64}
BytesAttrData(lo, lowForm, index, highForm) ==
  [LowPCOffset |-> lo, HighPCOffset |-> lo + LowPCSize(lowForm, index),
   LowPCForm |-> lowForm, HighPCForm |-> highForm]
BytesCases ==
  {[a |-> BytesAttrData(lo, lf, ix, hf), RangesBase |-> rb, patcherBase |-> pb,
    offset |-> off, patches |-> <<>>, done |-> FALSE] :
     lo \in BytesLowPCOffsets, lf \in LowForms, ix \in BytesIndices,
     hf \in HighForms, rb \in BytesRangesBases, pb \in BytesPatcherBases,
     off \in BytesRangesOffsets}

InitBytes ==
  /\ parallel = FALSE
  /\ SplitCU = [u \in Units |-> FALSE]
  /\ InitState
  /\ InitPlain
  /\ bytesCase \in BytesCases

\* convertToRanges(DIE, RangesSectionOffset, DebugInfoPatcher, RangesBase)
ConvertToRangesBytes ==
  /\ ~bytesCase.done
  /\ bytesCase' = [bytesCase EXCEPT
       !.patches = convertToRangesPatches(bytesCase.a, bytesCase.offset,
                                          bytesCase.patcherBase, bytesCase.RangesBase),
       !.done = TRUE]
  /\ UNCHANGED <<ctlVars, rangeVars, Patches, locVars, finVars, lockVars, walkVars, nameVars, entryVars, abbrevVars, pkgVars, mutexVars, formVars, mapVars>>

NextBytes == ConvertToRangesBytes

SpecBytes == InitBytes /\ [][NextBytes]_vars

\* ============= patchLowHigh and convertToRanges on one DIE, any layout
\* The attribute data findAttributeInfo may hand back for a DIE of the
\* input: low_pc and high_pc of the forms the rewriter knows and of another
\* one, high_pc right after low_pc or with another attribute in between.
UnexpectedForm == "DW_FORM_udata"
AnyLowForms == LowForms \cup {UnexpectedForm}
AnyHighForms == HighForms \cup {UnexpectedForm}
\* HighPCOffset - LowPCOffset: the eight bytes of an address or four bytes
\* more, the one or two bytes of a ULEB128 value or four bytes more.
LayoutDistances(lowForm) ==
  IF lowForm = "DW_FORM_addr" THEN {8, 12} ELSE {1, 2, 5}
LayoutRanges == {[LowPC |-> 64, HighPC |-> 96]}

\* The two warnings of getRangeAttrData, in the order it tests for them (an
\* attribute offset of -1U does not occur in the inputs drawn here).
NoWarning == "none"
UnexpectedFormValue(a) ==
  \/ a.LowPCForm \notin {"DW_FORM_addr", "DW_FORM_GNU_addr_index"}
  \/ a.HighPCForm \notin {"DW_FORM_addr", "DW_FORM_data8", "DW_FORM_data4"}
HighPCNotAfterLowPC(a) ==
  a.LowPCOffset + 8 # a.HighPCOffset /\ a.LowPCForm # "DW_FORM_GNU_addr_index"
getRangeAttrDataWarning(a) ==
  IF UnexpectedFormValue(a)
    THEN "BOLT-WARNING: unexpected form value. Cannot update DIE"
    ELSE IF HighPCNotAfterLowPC(a)
      THEN "BOLT-WARNING: high_pc expected immediately after low_pc. Cannot update DIE"
      ELSE NoWarning

LayoutCases ==
  {[a |-> [LowPCOffset |-> lo, HighPCOffset |-> lo + d, LowPCForm |-> lf,
           HighPCForm |-> hf],
    Range |-> r, RangesBase |-> rb, patcherBase |-> 16, offset |-> 16,
    call |-> "none", warning |-> NoWarning, patches |-> <<>>, done |-> FALSE] :
     lo \in BytesLowPCOffsets, d \in {1, 2, 5, 8, 12}, lf \in AnyLowForms,
     hf \in AnyHighForms, r \in LayoutRanges, rb \in {NoBase, 48}}

InitForms ==
  /\ parallel = FALSE
  /\ SplitCU = [u \in Units |-> FALSE]
  /\ InitState
  /\ opts = PlainOpts(parallel)
  /\ NDEBUG \in BOOLEAN
  /\ DWOId = [u \in Units |-> NoDWOId]
  /\ GdbIndex = <<>>
  /\ bytesCase \in LayoutCases
  /\ bytesCase.a.HighPCOffset - bytesCase.a.LowPCOffset
       \in LayoutDistances(bytesCase.a.LowPCForm)

\* patchLowHigh(DIE, Range, DebugInfoPatcher): getRangeAttrData returns
\* nothing, so the patches are added whether or not it has warned.
PatchLowHighForms ==
  /\ ~bytesCase.done
  /\ bytesCase' = [bytesCase EXCEPT
       !.call = "patchLowHigh",
       !.warning = getRangeAttrDataWarning(bytesCase.a),
       !.patches = patchLowHighPatches(bytesCase.a, [tbl |-> 1], bytesCase.Range,
                                       AddrTable),
       !.done = TRUE]
  /\ UNCHANGED <<ctlVars, rangeVars, Patches, locVars, finVars, lockVars, walkVars, nameVars, entryVars, abbrevVars, pkgVars, mutexVars, formVars, mapVars>>

\* convertToRanges(DIE, RangesSectionOffset, DebugInfoPatcher, RangesBase)
\* on a high_pc of a form it has a size for.
ConvertToRangesForms ==
  /\ ~bytesCase.done
  /\ bytesCase.a.HighPCForm \in HighForms
  /\ bytesCase' = [bytesCase EXCEPT
       !.call = "convertToRanges",
       !.warning = getRangeAttrDataWarning(bytesCase.a),
       !.patches = convertToRangesPatches(bytesCase.a, bytesCase.offset,
                                          bytesCase.patcherBase, bytesCase.RangesBase),
       !.done = TRUE]
  /\ UNCHANGED <<ctlVars, rangeVars, Patches, locVars, finVars, lockVars, walkVars, nameVars, entryVars, abbrevVars, pkgVars, mutexVars, formVars, mapVars>>

\* The same call on a high_pc of another form, after the warning: it runs
\* into llvm_unreachable("unexpected DW_AT_high_pc form"). A build with
\* assertions aborts there; in a release build the behaviour is undefined,
\* and the build either traps or goes on as one of the two branches before.
UnreachableOutcomes(ndebug) ==
  IF ndebug THEN {"DW_FORM_data8", "DW_FORM_data4", "trap"} ELSE {"trap"}
ConvertToRangesUnreachable ==
  /\ ~bytesCase.done
  /\ bytesCase.a.HighPCForm \notin HighForms
  /\ \E outcome \in UnreachableOutcomes(NDEBUG) :
       /\ bytesCase' = [bytesCase EXCEPT
            !.call = "convertToRanges",
            !.warning = getRangeAttrDataWarning(bytesCase.a),
            !.patches =
              IF outcome = "trap" THEN <<>>
              ELSE convertToRangesPatches([bytesCase.a EXCEPT !.HighPCForm = outcome],
                                          bytesCase.offset, bytesCase.patcherBase,
                                          bytesCase.RangesBase),
            !.done = TRUE]
       /\ phase' = IF outcome = "trap" THEN "exited" ELSE phase
       /\ Exit' = IF outcome = "trap" THEN "signal" ELSE Exit
  /\ UNCHANGED <<parallel, pc, SplitCU, walkDwo, cur, visited, rangeVars, Patches,
                 locVars, opts, NDEBUG, DWOId, StrSection, CUAddressRanges, Registered,
                 DWOFiles, DWP, GdbIndex, NewGdbIndex, lockVars, walkVars, nameVars, entryVars, abbrevVars, pkgVars, mutexVars, formVars, mapVars>>

NextForms == PatchLowHighForms \/ ConvertToRangesForms \/ ConvertToRangesUnreachable

SpecForms == InitForms /\ [][NextForms]_vars

\* ===================================== the output names of the split units
\* Number of skeleton units of a run of SpecNames; their DWO ids are
\* 1 .. MaxNamedUnits, in compile-unit order.
MaxNamedUnits == 12
NamedUnits == 1 .. MaxNamedUnits
\* A string is the sequence of its characters. The DW_AT_GNU_dwo_name values
\* of the input: a name, and that name with a digit after it.
DWONameSet == {<<"a">>, <<"a", "1">>}
DwoSuffix == <<".", "d", "w", "o">>
DigitChars == <<"0", "1", "2", "3", "4", "5", "6", "7", "8", "9">>
\* std::to_string of an unsigned number: its decimal digits.
RECURSIVE to_string(_)
to_string(n) ==
  IF n < 10 THEN <<DigitChars[n + 1]>>
  ELSE to_string(n \div 10) \o <<DigitChars[(n % 10) + 1]>>

\* The two maps hold pairs: <<name, index>> and <<DWO id, output name>>.
NamesOfId(idMap, id) == {e[2] : e \in {x \in idMap : x[1] = id}}
IndexOfName(nameMap, name) ==
  LET S == {e[2] : e \in {x \in nameMap : x[1] = name}}
  IN IF S = {} THEN 0 ELSE CHOOSE k \in S : TRUE
\* Variant: the index is appended but not advanced.
nextIndexKept(index) == index
\* ++Iter->second
nextIndex(index) == index + 1
\* getDWOName(CU, NameToIndexMap, DWOIdToName) for the unit with the given DWO
\* id and DW_AT_GNU_dwo_name; hasMap: NameToIndexMap is not nullptr,
\* outputPath: opts::DwarfOutputPath is not empty. The name it returns and
\* the two maps after the call.
getDWOName(id, DWOName, hasMap, outputPath, nameMap, idMap) ==
  IF NamesOfId(idMap, id) # {}
    THEN [name |-> CHOOSE n \in NamesOfId(idMap, id) : TRUE,
          NameToIndexMap |-> nameMap, DWOIdToName |-> idMap]
    ELSE LET index == IndexOfName(nameMap, DWOName)
             indexed == hasMap /\ outputPath
             name == DWOName \o (IF indexed THEN to_string(index) ELSE <<>>) \o DwoSuffix
         IN [name |-> name,
             NameToIndexMap |->
               IF indexed
                 THEN {e \in nameMap : e[1] # DWOName} \cup {<<DWOName, nextIndex(index)>>}
                 ELSE nameMap,
             DWOIdToName |-> idMap \cup {<<id, name>>}]

\* A run with threads disabled over skeleton units with loaded split units,
\* any of the names each, with and without an output directory.
InitNames ==
  /\ parallel = FALSE
  /\ SplitCU = [u \in Units |-> FALSE]
  /\ StartState
  /\ opts \in {[PlainOpts(parallel) EXCEPT !.DwarfOutputPath = b] : b \in BOOLEAN}
  /\ NDEBUG = TRUE
  /\ DWOId = [u \in Units |-> NoDWOId]
  /\ GdbIndex = <<>>
  /\ bytesCase = IdleBytesCase
  /\ DWONames \in [NamedUnits -> DWONameSet]
  /\ entryWalk = NoEntries
  /\ DWOSections = NoSections /\ SplitLowPCForm = "DW_FORM_GNU_addr_index"

\* updateDWONameCompDir of the next skeleton, in compile-unit order: the name
\* getDWOName(Unit, &NameToIndexMap, DWOIdToName) returns is the one added to
\* the string section.
UpdateDWOName ==
  /\ Len(nameCalls) < MaxNamedUnits
  /\ LET id == Len(nameCalls) + 1
         r == getDWOName(id, DWONames[id], TRUE, opts.DwarfOutputPath,
                         NameToIndexMap, DWOIdToName)
     IN /\ nameCalls' = Append(nameCalls, [id |-> id, by |-> "updateDWONameCompDir",
                                           name |-> r.name])
        /\ NameToIndexMap' = r.NameToIndexMap
        /\ DWOIdToName' = r.DWOIdToName
  /\ UNCHANGED <<ctlVars, rangeVars, Patches, locVars, bytesCase, finVars, lockVars,
                 walkVars, DWONames, entryVars, abbrevVars, pkgVars, mutexVars, formVars, mapVars>>

\* writeDWOFiles for the next split unit:
\* getDWOName(CU, nullptr, DWOIdToName) names the output file.
WriteDWOFileName ==
  /\ Len(nameCalls) >= MaxNamedUnits /\ Len(nameCalls) < 2 * MaxNamedUnits
  /\ LET id == Len(nameCalls) - MaxNamedUnits + 1
         r == getDWOName(id, DWONames[id], FALSE, opts.DwarfOutputPath,
                         NameToIndexMap, DWOIdToName)
     IN /\ nameCalls' = Append(nameCalls, [id |-> id, by |-> "writeDWOFiles",
                                           name |-> r.name])
        /\ NameToIndexMap' = r.NameToIndexMap
        /\ DWOIdToName' = r.DWOIdToName
  /\ UNCHANGED <<ctlVars, rangeVars, Patches, locVars, bytesCase, finVars, lockVars,
                 walkVars, DWONames, entryVars, abbrevVars, pkgVars, mutexVars, formVars, mapVars>>

NextNames == UpdateDWOName \/ WriteDWOFileName

SpecNames == InitNames /\ [][NextNames]_vars

\* ------------------------------- the shared maps, one call on a map a step
\* processUnitDIE of a skeleton with a loaded split unit, as the calls it
\* makes on the maps the tasks share: getDWOName looks the DWO id up in
\* DWOIdToName, with an output directory finds or inserts the name in
\* NameToIndexMap and advances its index, and stores the output name in
\* DWOIdToName; processUnitDIE inserts the split unit's writer in
\* LocListWritersByCU, updateUnitDebugInfo of the split unit looks its
\* writer up, processUnitDIE looks it up again to finalize its patches, and
\* updateUnitDebugInfo of the unit itself looks up the unit's writer. The
\* task of any other unit makes the last call only. None of the calls is
\* made under a lock.
MapSteps ==
  {"findName", "indexName", "storeName", "insertWriter", "lookupDwoWriter",
   "finalizeWriter", "lookupWriter"}
AccessAt(step) ==
  [map |-> CASE step \in {"findName", "storeName"} -> "DWOIdToName"
             [] step = "indexName" -> "NameToIndexMap"
             [] OTHER -> "LocListWritersByCU",
   write |-> step \in {"indexName", "storeName", "insertWriter"},
   raced |-> FALSE]
\* Two calls on one map of which one at least changes it.
Conflict(a, b) == a.map # "none" /\ a.map = b.map /\ (a.write \/ b.write)
\* The call that follows: getDWOName returns at once for a DWO id it has
\* named, and leaves NameToIndexMap alone without an output directory.
StepAfter(step, found, outputPath) ==
  CASE step = "findName" ->
         IF found THEN "insertWriter"
         ELSE IF outputPath THEN "indexName" ELSE "storeName"
    [] step = "indexName" -> "storeName"
    [] step = "storeName" -> "insertWriter"
    [] step = "insertWriter" -> "lookupDwoWriter"
    [] step = "lookupDwoWriter" -> "finalizeWriter"
    [] step = "finalizeWriter" -> "lookupWriter"
    [] OTHER -> "done"

\* processUnitDIE is entered: in a parallel run by the tasks in any order.
StartTask(u) ==
  /\ phase = "units" /\ pc[u] = "start" /\ MayStart(u)
  /\ pc' = [pc EXCEPT ![u] = IF SplitCU[u] THEN "findName" ELSE "lookupWriter"]
  /\ UNCHANGED <<parallel, phase, SplitCU, walkDwo, cur, visited, rangeVars, Patches,
                 locVars, bytesCase, finVars, lockVars, walkVars, nameVars, entryVars,
                 abbrevVars, pkgVars, mutexVars, formVars, mapVars>>

\* The task enters its next call on a map; it takes no lock.
BeginMapAccess(u) ==
  /\ phase = "units" /\ pc[u] \in MapSteps /\ mapAccess[u] = NoAccess
  /\ LET a == AccessAt(pc[u])
         others == {v \in Units \ {u} : Conflict(a, mapAccess[v])}
     IN mapAccess' =
          [v \in Units |->
             IF v = u THEN [a EXCEPT !.raced = others # {}]
             ELSE IF v \in others THEN [mapAccess[v] EXCEPT !.raced = TRUE]
             ELSE mapAccess[v]]
  /\ UNCHANGED <<ctlVars, rangeVars, Patches, locVars, bytesCase, finVars, lockVars,
                 walkVars, nameVars, entryVars, abbrevVars, pkgVars, mutexVars, formVars,
                 DwoWriters>>

\* The name getDWOName has composed for the DWO id.
ComposedName(id) ==
  LET S == {k \in 1 .. Len(nameCalls) : nameCalls[k].id = id}
  IN IF S = {} THEN DWONames[id] \o DwoSuffix
     ELSE nameCalls[CHOOSE k \in S : TRUE].name

\* The task leaves the call. A call that ran while a conflicting one did
\* has changed the map, has left it unchanged, or has brought the process
\* down.
EndMapAccess(u) ==
  /\ phase = "units" /\ pc[u] \in MapSteps /\ mapAccess[u] # NoAccess
  /\ LET step == pc[u]
         id == DWOId[u]
         r == getDWOName(id, DWONames[u], TRUE, opts.DwarfOutputPath,
                         NameToIndexMap, DWOIdToName)
     IN \E outcome \in Outcomes(mapAccess[u].raced) :
          /\ phase' = IF outcome = "crashed" THEN "exited" ELSE phase
          /\ Exit' = IF outcome = "crashed" THEN "signal" ELSE Exit
          /\ NameToIndexMap' = IF step = "indexName" /\ outcome = "added"
                                  THEN r.NameToIndexMap ELSE NameToIndexMap
          /\ nameCalls' = IF step = "indexName"
                             THEN Append(nameCalls, [id |-> id, by |-> "updateDWONameCompDir",
                                                     name |-> r.name])
                             ELSE nameCalls
          /\ DWOIdToName' = IF step = "storeName" /\ outcome = "added"
                               THEN DWOIdToName \cup {<<id, ComposedName(id)>>}
                               ELSE DWOIdToName
          /\ DwoWriters' = IF step = "insertWriter" /\ outcome = "added"
                              THEN DwoWriters \cup {id} ELSE DwoWriters
          /\ pc' = [pc EXCEPT ![u] =
               StepAfter(step, NamesOfId(DWOIdToName, id) # {}, opts.DwarfOutputPath)]
  /\ mapAccess' = [mapAccess EXCEPT ![u] = NoAccess]
  /\ UNCHANGED <<parallel, SplitCU, walkDwo, cur, visited, rangeVars, Patches, locVars,
                 bytesCase, opts, NDEBUG, DWOId, StrSection, CUAddressRanges, Registered,
                 DWOFiles, DWP, GdbIndex, NewGdbIndex, lockVars, walkVars, DWONames,
                 entryVars, abbrevVars, pkgVars, mutexVars, formVars>>

\* Any threading mode, any subset of the units being skeletons of loaded
\* split units, any of the names each, with and without an output directory.
InitMaps ==
  /\ parallel \in BOOLEAN
  /\ SplitCU \in [Units -> BOOLEAN]
  /\ StartState
  /\ opts \in {[PlainOpts(parallel) EXCEPT !.DwarfOutputPath = b] : b \in BOOLEAN}
  /\ NDEBUG = TRUE
  /\ DWOId = [u \in Units |-> IF SplitCU[u] THEN u ELSE NoDWOId]
  /\ GdbIndex = <<>>
  /\ bytesCase = IdleBytesCase
  /\ DWONames \in [Units -> DWONameSet]
  /\ entryWalk = NoEntries
  /\ DWOSections = NoSections /\ SplitLowPCForm = "DW_FORM_GNU_addr_index"

NextMaps ==
  \/ \E u \in Units : StartTask(u)
  \/ \E u \in Units : BeginMapAccess(u)
  \/ \E u \in Units : EndMapAccess(u)

SpecMaps == InitMaps /\ [][NextMaps]_vars

\* ============================================= properties: vocabulary
SubprogramIds == UNION {{<<u, k>> : k \in 1 .. Len(dies[u])} : u \in Units}
DiesOfDecl(d) == {i \in SubprogramIds : DeclOf(DieAt(i)) = d}
PatchSet(P) == UNION {{P[p][k] : k \in 1 .. Len(P[p])} : p \in PatcherIds}
\* The range patches recorded for subprogram DIE i, and their encodings.
RangePatchesIn(P, i) ==
  {q \in PatchSet(P) : q.die = i /\ q.enc \in {"ranges", "lowhigh"}}
Encodings(i) == {q.enc : q \in RangePatchesIn(Patches, i)}
AttrDataOf(i) == getRangeAttrData(i, DieAt(i))
\* The ranges-section offsets DIE i is patched with: the value of a 4-byte
\* patch at the place of the DW_AT_ranges attribute, plus the ranges base of
\* a split unit's DIE.
RangesOffsetsIn(P, bases, i) ==
  {q.val + BaseOffsetOf(AttrDataOf(i), bases[DieAt(i).tbl]) :
     q \in {r \in RangePatchesIn(P, i) :
              /\ r.enc = "ranges" /\ r.kind = "LE32"
              /\ r.off = AttrDataOf(i).HighPCOffset
                           + NumBytesToFillOf(AttrDataOf(i).HighPCForm) - 8}}
\* DIE i references, in the ranges section sec, exactly the list.
ReferencesList(P, bases, sec, i, list) ==
  /\ \A q \in RangePatchesIn(P, i) : q.enc = "ranges"
  /\ Cardinality(RangesOffsetsIn(P, bases, i)) = 1
  /\ \A o \in RangesOffsetsIn(P, bases, i) : ListAt(sec, o) = list
\* DIE i has its low_pc/high_pc fields patched with the range: low_pc holds
\* (or, for an indexed low_pc, indexes) the low address, high_pc the length.
LowHighPatchedWith(P, tab, i, range) ==
  LET a == AttrDataOf(i)
      Q == RangePatchesIn(P, i)
  IN /\ \A q \in Q : q.enc = "lowhigh"
     /\ \E q \in Q :
          /\ q.off = a.LowPCOffset
          /\ IF a.LowPCForm = "DW_FORM_GNU_addr_index"
               THEN q.kind = "UData" /\ <<q.val, range.LowPC>> \in tab[DieAt(i).tbl]
               ELSE q.kind = "LE64" /\ q.val = range.LowPC
     /\ \E q \in Q :
          /\ q.off = a.HighPCOffset
          /\ q.size = HighPCSize(a.HighPCForm)
          /\ q.val = range.HighPC - range.LowPC
\* Conversions of declaration d recorded by the abbreviation writer.
ConversionsOf(d) ==
  Cardinality({k \in 1 .. Len(AbbrevPatches[d]) :
                 AbbrevPatches[d][k].newAttr = "DW_AT_ranges"})
RunEnded == phase = "flushed"
MultiRange(d) == \E j \in DiesOfDecl(d) : DieAt(j).n > 1

C2_ConvertedOnceState ==
  \A d \in Decls :
    /\ ConversionsOf(d) <= 1
    /\ d \in ConvertedRangesAbbrevs => ConversionsOf(d) = 1
    /\ (RunEnded /\ MultiRange(d)) => (d \in ConvertedRangesAbbrevs /\ ConversionsOf(d) = 1)
C2_ConvertedOnce ==
  /\ []C2_ConvertedOnceState
  /\ [][ConvertedRangesAbbrevs \subseteq ConvertedRangesAbbrevs']_vars

\* Two multi-range functions of two tasks shared the declaration.
C2_Witness ==
  /\ RunEnded /\ parallel
  /\ \E d \in ConvertedRangesAbbrevs : \E i, j \in DiesOfDecl(d) :
       i[1] # j[1] /\ DieAt(i).n = 3 /\ DieAt(j).n = 3

\* ------------------------------------------------------------------- C3
\* C3: in every reachable state no declaration is both in the converted set
\* and a key of the pending list.
C3_NoPendingOnConverted ==
  \A d \in Decls : ~(d \in ConvertedRangesAbbrevs /\ PendingRanges[d] # <<>>)

\* A task has tested a single-range function against a declaration that a
\* multi-range function of another task converted.
C3_Witness ==
  /\ parallel
  /\ \E u, v \in Units :
       /\ u # v /\ pc[u] = "convertToRanges" /\ CurDie(u).n <= 1
       /\ DeclOf(CurDie(u)) \in ConvertedRangesAbbrevs
       /\ \E k \in 1 .. Len(dies[v]) :
            dies[v][k].n > 1 /\ DeclOf(dies[v][k]) = DeclOf(CurDie(u))

KeepsLowHigh(i) ==
  /\ LowHighPatchedWith(Patches, AddrTable, i, FunctionRangesOf(i, 1)[1])
  /\ AbbrevPatches[DeclOf(DieAt(i))] = <<>>
C5_SingleRangeKeepsLowHigh ==
  RunEnded =>
    \A i \in SubprogramIds :
      DieAt(i).n = 1 => (KeepsLowHigh(i) <=> ~MultiRange(DeclOf(DieAt(i))))

\* A single-range function kept low/high although it shares its declaration.
C5_Witness ==
  /\ RunEnded
  /\ \E i, j \in SubprogramIds :
       /\ i # j /\ DeclOf(DieAt(i)) = DeclOf(DieAt(j))
       /\ DieAt(i).n = 1 /\ KeepsLowHigh(i)

\* ------------------------------------------------------------------- C6
\* C6: in the step that moves a declaration d into the converted set, the
\* critical section is held, every pending entry of d references a ranges
\* offset holding its single retained range, d's pending entries are gone
\* and the pending entries of all other declarations are as before; and at
\* the end of the run two functions sharing a declaration, one with one
\* range and one with three, both reference ranges-section offsets.
C6_Step ==
  \A d \in Decls :
    (d \notin ConvertedRangesAbbrevs /\ d \in ConvertedRangesAbbrevs') =>
      /\ CriticalSectionMutex # 0
      /\ \A k \in 1 .. Len(PendingRanges[d]) :
           ReferencesList(Patches', RangeBase', RangesSection',
                          PendingRanges[d][k].die, <<PendingRanges[d][k].range>>)
      /\ PendingRanges'[d] = <<>>
      /\ \A e \in Decls \ {d} : PendingRanges'[e] = PendingRanges[e]
C6_Example ==
  RunEnded =>
    \A d \in Decls : \A i, j \in DiesOfDecl(d) :
      (DieAt(i).n = 1 /\ DieAt(j).n = 3) =>
        /\ Encodings(i) = {"ranges"} /\ Encodings(j) = {"ranges"}
        /\ d \in ConvertedRangesAbbrevs /\ ConversionsOf(d) = 1
C7_Step ==
  (phase = "units" /\ phase' = "flushed") =>
    /\ \A d \in Decls : \A k \in 1 .. Len(PendingRanges[d]) :
         /\ LowHighPatchedWith(Patches', AddrTable', PendingRanges[d][k].die,
                               PendingRanges[d][k].range)
         /\ RangePatchesIn(Patches, PendingRanges[d][k].die) = {}
         /\ d \notin ConvertedRangesAbbrevs
    /\ \A d \in Decls : PendingRanges'[d] = <<>>
RECURSIVE SumSizes(_)
SumSizes(ps) == IF ps = <<>> THEN 0 ELSE Head(ps).size + SumSizes(Tail(ps))
C8_PatchesCoverSpan ==
  bytesCase.done =>
    LET a == bytesCase.a
        ps == bytesCase.patches
        first == a.LowPCOffset
        end == a.HighPCOffset + HighPCSize(a.HighPCForm)
    IN /\ \A k \in 1 .. Len(ps) :
            ps[k].size > 0 /\ first <= ps[k].off /\ ps[k].off + ps[k].size <= end
       /\ \A b \in first .. end - 1 :
            Cardinality({k \in 1 .. Len(ps) :
                           ps[k].off <= b /\ b < ps[k].off + ps[k].size}) = 1
       /\ ps[Len(ps)].kind = "LE32" /\ ps[Len(ps)].size = 4
       /\ SumSizes(ps) = (a.HighPCOffset - a.LowPCOffset) + HighPCSize(a.HighPCForm)

\* An 8-byte high_pc after a 3-byte address index, converted.
C8_Witness ==
  /\ bytesCase.done
  /\ bytesCase.a.LowPCForm = "DW_FORM_GNU_addr_index"
  /\ bytesCase.a.HighPCOffset - bytesCase.a.LowPCOffset = 3
  /\ bytesCase.a.HighPCForm = "DW_FORM_data8"
  /\ Len(bytesCase.patches) = 2

\* ------------------------------------------------------------------- C9
LocIds == UNION {{<<u, k>> : k \in 1 .. Len(locDies[u])} : u \in Units}
LocDieAt(i) == locDies[i[1]][i[2]]
Deferred(i) == LocDieAt(i).local # EmptyListTag
LocFinalized == phase = "locs"
\* The patches recorded for location DIE i: <<patcher, position>>.
LocPatchSlots(i, enc) ==
  {s \in UNION {{<<p, k>> : k \in 1 .. Len(Patches[p])} : p \in PatcherIds} :
     Patches[s[1]][s[2]].die = i /\ Patches[s[1]][s[2]].enc = enc}
\* Sum of the finalized buffer sizes of the writers concatenated before key.
RECURSIVE SizeOf(_)
SizeOf(K) ==
  IF K = {} THEN 0
  ELSE LET k == CHOOSE x \in K : TRUE IN LocWriterSize[k] + SizeOf(K \ {k})
PrecedingKeys(key) ==
  {LocOrder[x] : x \in {y \in 1 .. Len(LocOrder) :
                          \E z \in 1 .. Len(LocOrder) : LocOrder[z] = key /\ y < z}}
ResolvedTo(i, value) ==
  /\ Cardinality(LocPatchSlots(i, "locList")) = 1
  /\ \A s \in LocPatchSlots(i, "locList") :
       /\ Patches[s[1]][s[2]].off = LocAttrOffsetOf(i)
       /\ Patches[s[1]][s[2]].val = value

\* C9 as stated: after the location section is finalized, the value patched
\* for every deferred location-list patch of a non-split unit is the sum of
\* the buffer sizes of the writers concatenated before its unit's writer
\* plus the local offset its writer returned.
C9_PrefixSumPlusLocal ==
  LocFinalized =>
    \A i \in LocIds :
      (Deferred(i) /\ ~LocDieAt(i).dwo) =>
        ResolvedTo(i, SizeOf(PrecedingKeys(LocDieAt(i).key)) + LocDieAt(i).local)

\* C9, amended: the value is the size of the reserved empty list that opens
\* the section (16 bytes), plus the sum of the buffer sizes of the writers
\* concatenated before its unit's writer, plus the local offset.
C9_ReservedPlusPrefixSumPlusLocal ==
  LocFinalized =>
    \A i \in LocIds :
      (Deferred(i) /\ ~LocDieAt(i).dwo) =>
        ResolvedTo(i, ReservedEmptyListSize + SizeOf(PrecedingKeys(LocDieAt(i).key))
                        + LocDieAt(i).local)

\* A list of a unit whose writer follows a non-empty writer.
C9_Witness ==
  /\ LocFinalized
  /\ \E i \in LocIds :
       /\ Deferred(i) /\ ~LocDieAt(i).dwo
       /\ SizeOf(PrecedingKeys(LocDieAt(i).key)) > 0

\* ------------------------------------------------------------------ C10
DeferredSlots(i) ==
  {<<TopPatcher, k>> : k \in {x \in 1 .. Len(LocListDebugInfoPatches) :
                               LocListDebugInfoPatches[x].die = i}}
  \cup UNION {{<<u, k>> : k \in {x \in 1 .. Len(DwoLocListDebugInfoPatches[u]) :
                                   DwoLocListDebugInfoPatches[u][x].die = i}} :
              u \in Units}
DeferredEntry(s) ==
  IF s[1] = TopPatcher THEN LocListDebugInfoPatches[s[2]]
  ELSE DwoLocListDebugInfoPatches[s[1]][s[2]]
LocPatcherOf(i) == IF LocDieAt(i).dwo THEN i[1] ELSE TopPatcher
Before(j, i) == j[1] < i[1] \/ (j[1] = i[1] /\ j[2] < i[2])
\* The offset the writer of DIE i's unit returns for its list: the bytes of
\* the lists added to that writer before.
RECURSIVE BytesOf(_)
BytesOf(S) ==
  IF S = {} THEN 0
  ELSE LET j == CHOOSE x \in S : TRUE IN LocListBytes(LocDieAt(j).k) + BytesOf(S \ {j})
WriterOffsetFor(i) ==
  BytesOf({j \in LocIds : /\ LocDieAt(j).key = LocDieAt(i).key
                          /\ LocDieAt(j).outcome = "translated" /\ LocDieAt(j).k > 0
                          /\ Before(j, i)})
EmptyResult(i) == LocDieAt(i).outcome # "translated" \/ LocDieAt(i).k = 0

C11_SplitUnitListsStayLocal ==
  /\ \A i \in LocIds :
       (LocDieAt(i).dwo /\ Deferred(i)) =>
         /\ \A s \in DeferredSlots(i) : s[1] = i[1]
         /\ Cardinality(DeferredSlots(i)) = 1
         /\ \A k \in 1 .. Len(Patches[TopPatcher]) : Patches[TopPatcher][k].die # i
         /\ LocFinalized =>
              /\ Cardinality(LocPatchSlots(i, "locList")) = 1
              /\ \A s \in LocPatchSlots(i, "locList") :
                   /\ s[1] = i[1]
                   /\ Patches[s[1]][s[2]].val = WriterOffsetFor(i)
                   /\ Patches[s[1]][s[2]].val = LocDieAt(i).local
  /\ LocFinalized =>
       \A u \in Units :
         /\ \A k \in 1 .. Len(LocOrder) : LocOrder[k] # DwoKey(u)
         /\ SectionOffsetByCU[DwoKey(u)] = 0

\* A finalized run in which a split unit's writer holds two lists, the second
\* at a local offset above 0.
C11_Witness ==
  /\ LocFinalized
  /\ \E i \in LocIds :
       /\ LocDieAt(i).dwo /\ Deferred(i) /\ LocDieAt(i).local > 0
       /\ Cardinality(LocPatchSlots(i, "locList")) = 1

\* ------------------------------------------------------------------ C12
\* The finalization steps in their order; a run ended by exit(1) in the
\* last step stands where a completed one does.
StepNo(p) ==
  CASE p = "units" -> 0 [] p = "flushed" -> 1 [] p = "aranges" -> 2
    [] p = "sections" -> 3 [] p = "locs" -> 4 [] p = "abbrev" -> 5
    [] p = "dwo" -> 6 [] p = "done" -> 7 [] p = "exited" -> 7
\* The sections a step may register.
SectionsOfStep(n) ==
  CASE n = 2 -> {".debug_aranges"}
    [] n = 3 -> {".debug_str", ".debug_addr", ".debug_ranges"}
    [] n = 4 -> {".debug_loc"}
    [] n = 5 -> {".debug_abbrev"}
    [] n = 7 -> {".gdb_index"}
    [] OTHER -> {}
Names(seq) == {seq[k] : k \in 1 .. Len(seq)}
IsPrefix(a, b) == Len(a) <= Len(b) /\ SubSeq(b, 1, Len(a)) = a
TasksFinished == \A u \in Units : pc[u] = "done" /\ ~walkDwo[u]

\* C12: every step of a run either stays within a finalization step or
\* begins the next one of the order flush, arange section, string pool /
\* address table / ranges section, location-list section, abbreviation
\* section, split-unit outputs, .gdb_index; the first one begins only when
\* every unit task has finished and no task moves afterwards; sections are
\* registered only by their own step, deferred location patches are resolved by the
\* location-list step alone, split-unit outputs are produced by their step
\* alone; and once the abbreviation step is over the top-level patch list
\* no longer changes.
C12_StrictOrderOfFinalization ==
  [][/\ StepNo(phase') \in {StepNo(phase), StepNo(phase) + 1}
     /\ StepNo(phase') > 0 => TasksFinished /\ pc' = pc /\ walkDwo' = walkDwo
     /\ IsPrefix(Registered, Registered')
     /\ Names(Registered') \ Names(Registered) \subseteq SectionsOfStep(StepNo(phase'))
     /\ Registered' # Registered => StepNo(phase') = StepNo(phase) + 1
     /\ StepNo(phase') # 4 =>
          /\ LocOrder' = LocOrder
          /\ SectionOffsetByCU' = SectionOffsetByCU
     /\ (StepNo(phase') # 6 \/ StepNo(phase) = 6) => DWOFiles' = DWOFiles /\ DWP' = DWP
     /\ (StepNo(phase') # 7 \/ StepNo(phase) = 7) => NewGdbIndex' = NewGdbIndex /\ Exit' = Exit
     /\ StepNo(phase) >= 5 => Patches'[TopPatcher] = Patches[TopPatcher]
    ]_vars

\* A completed run that registered all seven sections, patched a unit
\* header in the abbreviation step and wrote a split-unit file.
C12_Witness ==
  /\ phase = "done"
  /\ Registered = <<".debug_aranges", ".debug_str", ".debug_addr", ".debug_ranges",
                    ".debug_loc", ".debug_abbrev", ".gdb_index">>
  /\ \E k \in 1 .. Len(Patches[TopPatcher]) : Patches[TopPatcher][k].enc = "abbrevOffset"
  /\ DWOFiles # {}

\* ------------------------------------------------------------------ C13
\* The number of ranges the arange writer retains.
RECURSIVE NumRetained(_, _)
NumRetained(cuRanges, K) ==
  IF K = {} THEN 0
  ELSE LET o == CHOOSE x \in K : TRUE IN Len(cuRanges[o]) + NumRetained(cuRanges, K \ {o})
TotalRetained == NumRetained(CUAddressRanges, DOMAIN CUAddressRanges)
\* The run has registered a regenerated index.
Regenerated == phase = "done" /\ GdbIndex # <<>> /\ GdbIndex # GdbUnread
\* The byte of the index data at which its symbol table begins.
SymbolTableAt(data) == GdbHeaderSize + GdbSymbolTableOffset(data) - GdbCUListOffset(data)
AddressTableAt(data) == GdbHeaderSize + GdbAddressTableOffset(data) - GdbCUListOffset(data)

\* C13: a regenerated index is as long as the old one plus the difference
\* between 20 bytes for every retained range and the size of the old
\* address table; its version, CU-list, types-CU-list and address-table
\* offsets are the old ones, its symbol-table and constant-pool offsets the
\* old ones plus that difference; the bytes of the two CU lists and the
\* bytes from the old symbol table to the end are the old ones.
C13_GdbIndexSizeAndOffsets ==
  Regenerated =>
    LET Delta == 20 * TotalRetained
                   - (GdbSymbolTableOffset(GdbIndex) - GdbAddressTableOffset(GdbIndex))
        Trailing == Len(GdbIndex) - SymbolTableAt(GdbIndex)
    IN /\ Len(NewGdbIndex) = Len(GdbIndex) + Delta
       /\ GdbVersion(NewGdbIndex) = GdbVersion(GdbIndex)
       /\ GdbCUListOffset(NewGdbIndex) = GdbCUListOffset(GdbIndex)
       /\ GdbCUTypesOffset(NewGdbIndex) = GdbCUTypesOffset(GdbIndex)
       /\ GdbAddressTableOffset(NewGdbIndex) = GdbAddressTableOffset(GdbIndex)
       /\ GdbSymbolTableOffset(NewGdbIndex) = GdbSymbolTableOffset(GdbIndex) + Delta
       /\ GdbConstantPoolOffset(NewGdbIndex) = GdbConstantPoolOffset(GdbIndex) + Delta
       /\ SubSeq(NewGdbIndex, GdbHeaderSize + 1, AddressTableAt(GdbIndex))
            = SubSeq(GdbIndex, GdbHeaderSize + 1, AddressTableAt(GdbIndex))
       /\ SubSeq(NewGdbIndex, SymbolTableAt(NewGdbIndex) + 1, Len(NewGdbIndex))
            = SubSeq(GdbIndex, SymbolTableAt(GdbIndex) + 1, Len(GdbIndex))
       /\ Len(NewGdbIndex) - SymbolTableAt(NewGdbIndex) = Trailing

\* An index with a types CU list and three old entries regenerated with
\* two retained ranges: the section shrinks.
C13_Witness ==
  /\ Regenerated
  /\ TotalRetained = 2
  /\ Len(NewGdbIndex) < Len(GdbIndex)
  /\ GdbCUTypesOffset(GdbIndex) < GdbAddressTableOffset(GdbIndex)

\* ------------------------------------------------------------------ C14
\* updateGdbIndexSection has run on a present index.
GdbStepOver == phase \in {"done", "exited"} /\ GdbIndex # <<>> /\ GdbIndex # GdbUnread
BadVersion == GdbVersion(GdbIndex) # 7 /\ GdbVersion(GdbIndex) # 8
BadCount == GdbCUTypesOffset(GdbIndex) - GdbCUListOffset(GdbIndex) # 16 * NumUnits
BadOffset ==
  \E u \in Units : read64le(GdbIndex, GdbHeaderSize + 16 * (u - 1)) # CUOffsetOf(u)
TimesRegistered(name) == Cardinality({k \in 1 .. Len(Registered) : Registered[k] = name})

\* C14: on an index whose version is neither 7 nor 8, or whose CU list is
\* not 16 bytes for every compile unit, or one of whose CU-list entries
\* holds another offset than the unit at its position, the step ends the
\* run by exit(1) and registers no .gdb_index; on every other index it
\* registers exactly one.
C14_GdbIndexFatalCases ==
  GdbStepOver =>
    IF BadVersion \/ BadCount \/ BadOffset
      THEN /\ phase = "exited" /\ Exit = "exit(1)"
           /\ TimesRegistered(".gdb_index") = 0
           /\ NewGdbIndex = <<>>
      ELSE /\ phase = "done" /\ Exit = "none"
           /\ TimesRegistered(".gdb_index") = 1

\* A version 7 index with the right number of entries whose last entry
\* alone is wrong has ended the run.
C14_Witness ==
  /\ GdbStepOver /\ phase = "exited"
  /\ ~BadVersion /\ ~BadCount
  /\ \A u \in Units :
       (read64le(GdbIndex, GdbHeaderSize + 16 * (u - 1)) # CUOffsetOf(u)) <=> u = NumUnits

\* ------------------------------------------------------------------ C15
\* The entries of the address table of a regenerated index.
NewEntryAt(k) ==
  LET at == AddressTableAt(NewGdbIndex) + 20 * (k - 1)
  IN [low |-> read64le(NewGdbIndex, at), high |-> read64le(NewGdbIndex, at + 8),
      cu |-> read32le(NewGdbIndex, at + 16)]
NumNewEntries == (SymbolTableAt(NewGdbIndex) - AddressTableAt(NewGdbIndex)) \div 20
\* The position in the CU list of the unit at the given offset.
PositionOf(offset) == (CHOOSE u \in Units : CUOffsetOf(u) = offset) - 1
\* The entries the retained ranges call for.
RetainedEntries ==
  UNION {{[low |-> CUAddressRanges[o][j].LowPC, high |-> CUAddressRanges[o][j].HighPC,
           cu |-> PositionOf(o)] : j \in 1 .. Len(CUAddressRanges[o])}
         : o \in DOMAIN CUAddressRanges}

\* C15: the address table of a regenerated index is a whole number of
\* 20-byte entries, as many as there are retained ranges; every retained
\* range of every unit has its entry, carrying the position of that unit in
\* the CU list, and there is no other entry.
C15_AddressTableFromRetainedRanges ==
  Regenerated =>
    /\ SymbolTableAt(NewGdbIndex) - AddressTableAt(NewGdbIndex) = 20 * NumNewEntries
    /\ NumNewEntries = TotalRetained
    /\ {NewEntryAt(k) : k \in 1 .. NumNewEntries} = RetainedEntries
    /\ Cardinality(RetainedEntries) = TotalRetained

\* A regenerated index whose table holds two entries of the last unit and
\* one of the first.
C15_Witness ==
  /\ Regenerated
  /\ NumNewEntries = 3
  /\ Cardinality({k \in 1 .. NumNewEntries : NewEntryAt(k).cu = NumUnits - 1}) = 2
  /\ Cardinality({k \in 1 .. NumNewEntries : NewEntryAt(k).cu = 0}) = 1

\* ------------------------------------------------------------------ C16
\* C16: once writeDWP has met a second split unit with a signature that is
\* already in the package index and has printed its error, the run has
\* ended with a non-zero status: .gdb_index is not regenerated, the run
\* does not complete, and the package file is not kept.
C16_DuplicateSignatureIsFatal ==
  DWP.errs =>
    /\ Exit = "exit(1)"
    /\ phase # "done"
    /\ TimesRegistered(".gdb_index") = 0
    /\ NewGdbIndex = <<>>
    /\ ~DWP.kept

\* ------------------------------------------------------------------ C17
\* Unit u is a skeleton whose split unit failed to load.
Unloaded(u) == DWOId[u] # NoDWOId /\ ~SplitCU[u]
PatchesOfUnitDie(u, enc) ==
  {k \in 1 .. Len(Patches[TopPatcher]) :
     Patches[TopPatcher][k].die = UnitDie(u) /\ Patches[TopPatcher][k].enc = enc}

OneAfterAnother ==
  \A u, v \in Units : (u < v /\ pc[v] # "start") => pc[u] = "done"
\* The tasks are handed to the pool at once: every unit not yet begun can
\* begin whatever the state of the others.
OneTaskPerUnit ==
  \A u \in Units : (phase = "units" /\ pc[u] = "start") => ENABLED StartUnit(u)
\* BC.getNumDWOCUs() == 0
NoSplitUnits == \A u \in Units : ~SplitCU[u]

\* C18 as stated: deterministic output or the absence of split units makes
\* the run handle the units one after another; in every other run a task per
\* unit is handed to the pool.
C18_SingleThreadedWithoutSplitUnits ==
  IF opts.DeterministicDebugInfo \/ NoSplitUnits
    THEN OneAfterAnother
    ELSE OneTaskPerUnit

\* C18, amended: deterministic output or the no-threads option makes the
\* run handle the units one after another in compile-unit order; in every
\* other run, with or without split units, a task per unit is handed to the
\* pool.
C18_SingleThreadedOnRequest ==
  IF opts.DeterministicDebugInfo \/ opts.NoThreads
    THEN OneAfterAnother
    ELSE OneTaskPerUnit

\* A run without split units and without either option in which the last
\* unit is being walked while the first has not begun.
C18_Witness ==
  /\ NoSplitUnits
  /\ ~opts.DeterministicDebugInfo /\ ~opts.NoThreads
  /\ pc[1] = "start" /\ pc[NumUnits] = "walk"

\* ------------------------------------------------------------------ C19
\* Task u is inside a call that adds to the top-level patch list.
InsideTopLevel(u) == Inside(u) /\ appending[u].to = TopPatcher

\* C19: while the unit tasks run in parallel, a task that is inside an
\* append to the top-level patch list holds DebugInfoPatcherMutex, and no
\* two tasks are inside such an append at the same time; this covers the
\* range patches, the ranges-base patch and the DWO-name and
\* compile-directory patches of a skeleton.
C19_TopLevelAppendsUnderLock ==
  parallel =>
    /\ \A u \in Units : InsideTopLevel(u) => DebugInfoPatcherMutex = u
    /\ \A u, v \in Units : (InsideTopLevel(u) /\ InsideTopLevel(v)) => u = v

\* ===================================================================== C20
\* The DIE getRangeAttrData has warned about: an unexpected form of low_pc
\* or high_pc, or a high_pc that does not follow a direct-form low_pc.
WarnedAbout == bytesCase.done /\ bytesCase.warning # NoWarning

\* C20: when a DIE's low_pc or high_pc has an unexpected encoding form, or
\* its high_pc does not immediately follow a direct-form low_pc, a
\* diagnostic is produced and the DIE is left as it is: neither patchLowHigh
\* nor convertToRanges records a patch for it, and the run goes on.
C20_WarnedDieLeftUnmodified ==
  /\ (bytesCase.done /\ ( UnexpectedFormValue(bytesCase.a)
                          \/ HighPCNotAfterLowPC(bytesCase.a)))
       => bytesCase.warning # NoWarning
  /\ WarnedAbout => bytesCase.patches = <<>> /\ Exit = "none"

\* ===================================================================== C21
\* The other DIEs with a low_pc whose address no function contains.
LowPCIds == UNION {{<<u, k>> : k \in 1 .. Len(lowpcDies[u])} : u \in Units}
LowPCDieAt(i) == lowpcDies[i[1]][i[2]]
LookupMisses == {i \in LowPCIds : ~LowPCDieAt(i).found}
LowPCPatchesOf(i) == {q \in PatchSet(Patches) : q.die = i /\ q.enc = "lowpc"}

\* C21: for a DIE that is no subprogram or block and has a low_pc, a missed
\* address lookup leaves the attribute as it is: no patch changes the stored
\* address of a direct-form low_pc, and the address table keeps the original
\* address at the original index of an indexed one.
C21_LookupMissLeavesLowPC ==
  \A i \in LookupMisses :
    IF LowPCDieAt(i).dwo
      THEN <<IndexLOf(i), InputAddressOf(i)>> \in AddrTable[i[1]]
      ELSE \A q \in LowPCPatchesOf(i) : q.val = InputAddressOf(i)
\* The indexed half of C21 alone.
C21_IndexedHalf ==
  \A i \in LookupMisses :
    LowPCDieAt(i).dwo => <<IndexLOf(i), InputAddressOf(i)>> \in AddrTable[i[1]]

\* ===================================================================== C22
RangeDieIds(bd) == UNION {{<<u, k>> : k \in 1 .. Len(bd[u])} : u \in Units}
RangeDieAt(bd, i) == bd[i[1]][i[2]]
BlockIds(bd) == {i \in RangeDieIds(bd) : RangeDieAt(bd, i).tag = "DW_TAG_lexical_block"}
\* A block whose translated ranges are empty or that lies in no function.
WithoutRanges(die) == ~die.found \/ die.out = <<>>
\* The ranges-section offsets the patches P give the DIE i: the 4-byte value
\* at the place of its (old or new) DW_AT_ranges attribute, plus the ranges
\* base when the value was stored relative to it.
ObjectRangesOffsetsIn(P, bases, i, die) ==
  LET a == BlockAttrData(i, die)
      place == IF die.hi = "none" THEN RangesAttrOffsetOf(i)
               ELSE a.HighPCOffset + NumBytesToFillOf(a.HighPCForm) - 8
      base == IF die.hi = "none" THEN bases[die.tbl] ELSE BaseOffsetOf(a, bases[die.tbl])
  IN {q.val + base :
        q \in {r \in PatchSet(P) : /\ r.die = i /\ r.enc = "objectRanges"
                                   /\ r.kind = "LE32" /\ r.off = place}}
\* The step that dispatches block i leaves it patched with the empty-ranges
\* offset and leaves the ranges section as it was.
GivenEmptyOffset(i) ==
  /\ ObjectRangesOffsetsIn(Patches', RangeBase', i, RangeDieAt(blockDies', i))
       = {EmptyRangesOffset}
  /\ RangesSection' = RangesSection

\* C22: every lexical block (inlined subroutine, try or catch block) whose
\* translated ranges are empty, or for which no containing function is
\* found, has its ranges attribute patched with the shared empty-ranges
\* offset, and no entry is added to the ranges section for it; so two such
\* blocks of one unit are given the same offset.
C22_EmptyBlockGetsEmptyOffset ==
  [][\A i \in BlockIds(blockDies') \ BlockIds(blockDies) :
       WithoutRanges(RangeDieAt(blockDies', i)) => GivenEmptyOffset(i)]_vars
\* C22 for the blocks of the units that are no split units.
C22_InTopLevelUnits ==
  [][\A i \in BlockIds(blockDies') \ BlockIds(blockDies) :
       (WithoutRanges(RangeDieAt(blockDies', i)) /\ RangeDieAt(blockDies', i).tbl = TopPatcher)
         => GivenEmptyOffset(i)]_vars

\* ===================================================================== C23
\* The blocks whose ranges went through addRanges(Ranges, CachedRanges).
AddedBlockIds == {i \in BlockIds(blockDies) : RangeDieAt(blockDies, i).found}
\* The cache scope of block i: its unit and the number of function
\* definitions its walk has met before it.
FunctionsBefore(i) ==
  Cardinality({k \in 1 .. i[2] : blockDies[i[1]][k].tag = "DW_TAG_subprogram"})
CacheScope(i) == <<i[1], FunctionsBefore(i)>>
AddedList(i) == RangeDieAt(blockDies, i).out
ReturnedOffset(i) == RangeDieAt(blockDies, i).off
\* The lists the blocks and the subprograms have had stored in the section.
StoredByBlocks ==
  {<<CacheScope(i), AddedList(i)>> : i \in {j \in AddedBlockIds : AddedList(j) # <<>>}}
StoredBySubprograms == RangeDieIds(blockDies) \ BlockIds(blockDies)

\* C23: within one cache scope addRanges returns the same offset for equal
\* lists, storing nothing twice, and different offsets for different lists;
\* the scope of a block is its function: the cache is reset at every function
\* definition and belongs to one unit's walk, so an equal list of the next
\* function or of another unit is given an offset of its own.
C23_CacheScopeIsFunction ==
  /\ \A i, j \in AddedBlockIds :
       IF CacheScope(i) = CacheScope(j)
         THEN (AddedList(i) = AddedList(j)) <=> (ReturnedOffset(i) = ReturnedOffset(j))
         ELSE (AddedList(i) # <<>> \/ AddedList(j) # <<>>)
                => ReturnedOffset(i) # ReturnedOffset(j)
  /\ Len(RangesSection) = Cardinality(StoredByBlocks) + Cardinality(StoredBySubprograms)

\* Two blocks of one function with equal lists, and an equal list in another
\* unit.
C23_Witness ==
  \E i, j, k \in AddedBlockIds :
    /\ i # j /\ CacheScope(i) = CacheScope(j) /\ k[1] # i[1]
    /\ AddedList(i) # <<>> /\ AddedList(i) = AddedList(j) /\ AddedList(i) = AddedList(k)
    /\ ReturnedOffset(i) = ReturnedOffset(j) /\ ReturnedOffset(i) # ReturnedOffset(k)
\* An equal list in the next function of the same unit.
C23_NextFunction ==
  \E i, j \in AddedBlockIds :
    /\ i[1] = j[1] /\ FunctionsBefore(i) < FunctionsBefore(j)
    /\ AddedList(i) # <<>> /\ AddedList(i) = AddedList(j)

\* ===================================================================== C24
NamesReturnedFor(id) ==
  {nameCalls[k].name : k \in {j \in 1 .. Len(nameCalls) : nameCalls[j].id = id}}
NamedIds == {nameCalls[k].id : k \in 1 .. Len(nameCalls)}
\* The names <dwo-name><dedup-index>.dwo of a DW_AT_GNU_dwo_name.
IndexedNames(DWOName) ==
  {DWOName \o to_string(n) \o DwoSuffix : n \in 0 .. MaxNamedUnits - 1}
\* Every call of getDWOName for one DWO id has returned the same name.
SameNameOnEveryCall == \A id \in NamedIds : Cardinality(NamesReturnedFor(id)) = 1

\* C24: every DWO id gets an output file name of its own: getDWOName returns
\* the same name on every call for one DWO id, and with an output directory
\* any two DWO ids get different names, each of the form
\* <dwo-name><dedup-index>.dwo, whatever the DW_AT_GNU_dwo_name values are
\* (equal names, names that end in digits).
C24_UniqueNamePerDWOId ==
  /\ SameNameOnEveryCall
  /\ opts.DwarfOutputPath =>
       /\ \A id \in NamedIds : NamesReturnedFor(id) \subseteq IndexedNames(DWONames[id])
       /\ \A id1, id2 \in NamedIds :
            id1 # id2 => NamesReturnedFor(id1) \cap NamesReturnedFor(id2) = {}
\* C24 without the distinctness of the names of two DWO ids.
C24_SameNameAndForm ==
  /\ SameNameOnEveryCall
  /\ opts.DwarfOutputPath =>
       \A id \in NamedIds : NamesReturnedFor(id) \subseteq IndexedNames(DWONames[id])

\* ===================================== the walk over a unit's entry stream
\* Cap on the entries of all units' streams together.
MaxEntries == 3
\* Unit.getHeaderSize() of a DWARF 4 compile unit: length, version, abbreviation
\* offset, address size.
HeaderSize == 11
\* An entry of the stream: a null entry (abbreviation code 0), an abbreviation
\* code the unit has no declaration for, or a DIE whose declaration has
\* children or not and holds a DW_AT_low_pc of form DW_FORM_addr or nothing.
NullEntry == [kind |-> "null", children |-> FALSE, lowpc |-> FALSE]
BadEntry == [kind |-> "bad", children |-> FALSE, lowpc |-> FALSE]
DieEntries == [kind : {"die"}, children : BOOLEAN, lowpc : BOOLEAN]
EntryKinds == {NullEntry, BadEntry} \cup DieEntries
\* Bytes of an entry: the abbreviation code and the attribute values.
EntrySize(e) == 1 + (IF e.lowpc THEN AddrSize ELSE 0)
\* The streams of up to n entries.
RECURSIVE StreamsUpTo(_)
StreamsUpTo(n) ==
  IF n = 0 THEN {<<>>}
  ELSE StreamsUpTo(n - 1)
         \cup {Append(s, e) : s \in {t \in StreamsUpTo(n - 1) : Len(t) = n - 1},
                              e \in EntryKinds}
\* Unit.getNextUnitOffset() less the offset of the first entry: the declared
\* size of the unit's entries.
UnitSpans == {2, 10, 11}
FirstEntryOffset(u) == CUOffsetOf(u) + HeaderSize

\* The walk of a unit before its loop: the stream the section holds from the
\* unit's first entry on, the declared end, and the loop's locals; k counts
\* the entries extracted, log lists the iterations of the loop.
NewWalk(u, entries, span) ==
  [entries |-> entries, NextCUOffset |-> FirstEntryOffset(u) + span,
   DIEOffset |-> 0, Depth |-> 0, k |-> 0, log |-> <<>>]

\* The entries of the streams of the units from u on.
RECURSIVE TotalLen(_, _)
TotalLen(streams, u) ==
  IF u > NumUnits THEN 0 ELSE Len(streams[u]) + TotalLen(streams, u + 1)

\* Any streams of at most MaxEntries entries together, any declared ends,
\* no split units.
InitWalk ==
  /\ parallel \in BOOLEAN
  /\ SplitCU = [u \in Units |-> FALSE]
  /\ StartState
  /\ DWONames = <<>>
  /\ DWOSections = NoSections /\ SplitLowPCForm = "DW_FORM_GNU_addr_index"
  /\ InitPlain
  /\ bytesCase = IdleBytesCase
  /\ \E streams \in [Units -> StreamsUpTo(MaxEntries)], spans \in [Units -> UnitSpans] :
       /\ TotalLen(streams, 1) <= MaxEntries
       /\ entryWalk = [u \in Units |-> NewWalk(u, streams[u], spans[u])]

\* Die.extractFast(Unit, &DIEOffset, DebugInfoData, NextCUOffset, Depth) on
\* walk w: no entry is extracted at or beyond the end of the unit or of the
\* data, nor one whose abbreviation code has no declaration; else the offset
\* moves past the entry.
extractFastOk(w) ==
  /\ w.DIEOffset < w.NextCUOffset
  /\ w.k < Len(w.entries)
  /\ w.entries[w.k + 1].kind # "bad"
extractFastOffset(w) == w.DIEOffset + EntrySize(w.entries[w.k + 1])

\* while (DIEOffset < NextCUOffset && Die.extractFast(...))
LoopCondition(w) == w.DIEOffset < w.NextCUOffset /\ extractFastOk(w)

\* Variant: a null entry does not lower the depth.
DepthAfterNullKept(e, Depth) ==
  IF e.kind = "null" THEN Depth
  ELSE IF e.children THEN Depth + 1 ELSE Depth

\* The depth after the entry: ++Depth for a declaration with children,
\* if (Depth > 0) --Depth for a null entry.
DepthAfter(e, Depth) ==
  IF e.kind = "null" THEN (IF Depth > 0 THEN Depth - 1 ELSE Depth)
  ELSE IF e.children THEN Depth + 1 ELSE Depth

\* Variant: the loop is not left at a null entry.
BreaksNever(e, Depth) == FALSE

\* if (Depth == 0) break; of the null entry's branch, Depth after the entry.
Breaks(e, Depth) == e.kind = "null" /\ Depth = 0

\* The patches the switch records for the entry extracted at offset off,
\* the k-th of unit u.
entryPatches(u, k, e, off) ==
  IF e.lowpc
    THEN Annotate(<<LE64Patch(off + 1, NewAddressOf(<<u, k>>, TRUE))>>, <<u, k>>, "lowpc")
    ELSE <<>>

\* updateUnitDebugInfo up to the loop.
StartEntryWalk(u) ==
  /\ phase = "units" /\ pc[u] = "start" /\ MayStart(u)
  /\ entryWalk' = [entryWalk EXCEPT ![u].DIEOffset = FirstEntryOffset(u), ![u].Depth = 0]
  /\ pc' = [pc EXCEPT ![u] = "walk"]
  /\ UNCHANGED <<parallel, phase, SplitCU, walkDwo, cur, visited, rangeVars, Patches,
                 locVars, bytesCase, finVars, lockVars, walkVars, nameVars, errs,
                 UnitAbbrevs, abbrevVars, pkgVars, mutexVars, formVars, mapVars>>

\* One turn of the loop: the entry is extracted, the depth follows it, the
\* loop is left at a null entry that leaves the depth at zero, and any other
\* entry goes through the switch.
WalkEntry(u) ==
  /\ pc[u] = "walk"
  /\ LET w == entryWalk[u]
         e == w.entries[w.k + 1]
         Depth == DepthAfter(e, w.Depth)
         break == Breaks(e, Depth)
     IN /\ LoopCondition(w)
        /\ entryWalk' = [entryWalk EXCEPT ![u] =
             [w EXCEPT !.DIEOffset = extractFastOffset(w), !.Depth = Depth, !.k = w.k + 1,
                       !.log = Append(w.log, [off |-> w.DIEOffset, k |-> w.k + 1,
                                              before |-> w.Depth, after |-> Depth,
                                              dispatched |-> ~break])]]
        /\ Patches' = IF break THEN Patches
                      ELSE [Patches EXCEPT ![TopPatcher] =
                              @ \o entryPatches(u, w.k + 1, e, w.DIEOffset)]
        /\ pc' = [pc EXCEPT ![u] = IF break THEN "break" ELSE "walk"]
  /\ UNCHANGED <<parallel, phase, SplitCU, walkDwo, cur, visited, rangeVars,
                 locVars, bytesCase, finVars, lockVars, walkVars, nameVars, errs,
                 UnitAbbrevs, abbrevVars, pkgVars, mutexVars, formVars, mapVars>>

\* Variant: the walk's end offset is not compared with the unit's end.
CorruptDetectedNever(w) == FALSE

\* if (DIEOffset > NextCUOffset)
CorruptDetected(w) == w.DIEOffset > w.NextCUOffset

\* Variant: a unit with a corrupt boundary is not registered.
addUnitAbbreviationsUnlessCorrupt(n, w) == IF CorruptDetected(w) THEN n ELSE n + 1

\* AbbrevWriter.addUnitAbbreviations(Unit): the calls for the unit so far.
addUnitAbbreviations(n, w) == n + 1

\* The loop has been left, by break or by its condition: the boundary
\* warning, then the unit's abbreviations are handed to the writer.
FinishEntryWalk(u) ==
  /\ pc[u] = "break" \/ (pc[u] = "walk" /\ ~LoopCondition(entryWalk[u]))
  /\ errs' = IF CorruptDetected(entryWalk[u])
               THEN Append(errs, [text |-> "BOLT-WARNING: corrupt DWARF detected",
                                  unit |-> u])
               ELSE errs
  /\ UnitAbbrevs' = [UnitAbbrevs EXCEPT ![u] = addUnitAbbreviations(@, entryWalk[u])]
  /\ pc' = [pc EXCEPT ![u] = "done"]
  /\ UNCHANGED <<parallel, phase, SplitCU, walkDwo, cur, visited, rangeVars, Patches,
                 locVars, bytesCase, finVars, lockVars, walkVars, nameVars, entryWalk,
                 abbrevVars, pkgVars, mutexVars, formVars, mapVars>>

NextWalk ==
  \/ \E u \in Units : StartEntryWalk(u)
  \/ \E u \in Units : WalkEntry(u)
  \/ \E u \in Units : FinishEntryWalk(u)

SpecWalk == InitWalk /\ [][NextWalk]_vars

\* ====================== the run as a whole, with and without the thread pool
\* Any setting of the options the run reads.
AnyOpts ==
  [NoThreads : BOOLEAN, DeterministicDebugInfo : BOOLEAN, DwarfOutputPath : BOOLEAN]

\* A release build run on a binary without .gdb_index; the options decide the
\* threading mode.
InitSeq ==
  /\ opts \in AnyOpts
  /\ parallel = UsesThreadPool(opts)
  /\ SplitCU \in [Units -> BOOLEAN]
  /\ InitState
  /\ NDEBUG = TRUE
  /\ DWOId = [u \in Units |-> IF SplitCU[u] THEN u ELSE NoDWOId]
  /\ GdbIndex = <<>>
  /\ bytesCase = IdleBytesCase

\* The run over subprograms and location lists, up to the location-list
\* section.
NextSeq ==
  \/ \E u \in Units : StartUnit(u)
  \/ \E u \in Units : EndWalk(u)
  \/ \E u \in Units : VisitSubprogram(u)
  \/ \E u \in Units : ConvertPendingBegin(u)
  \/ \E u \in Units : ConvertPendingEntry(u)
  \/ \E u \in Units : ConvertPendingEnd(u)
  \/ \E u \in Units : ConvertToRanges(u)
  \/ \E u \in Units : AddToPending(u)
  \/ \E u \in Units : VisitLocation(u)
  \/ FlushPendingRanges
  \/ FinalizeARanges
  \/ FinalizeStrAddrRanges
  \/ MakeFinalLocListsSection

SpecSeq == InitSeq /\ [][NextSeq]_vars

\* ---- for (CU : compile_units()) processUnitDIE(0, CU.get()), as one pass
\* The writers, patchers and lists of the run: r.conv the converted set,
\* r.pend the pending list, r.sec the ranges section, r.P the patchers,
\* r.bases their ranges bases, r.abbrev the abbreviation patches, r.addr the
\* address table, r.str the string section, r.loc the location-list writers,
\* r.top and r.dwo the deferred location-list patches.
SeqStart ==
  [conv |-> {}, pend |-> [d \in Decls |-> <<>>], sec |-> <<>>,
   P |-> [p \in PatcherIds |-> <<>>], bases |-> [p \in PatcherIds |-> 0],
   abbrev |-> [d \in Decls \cup UnitDecls \cup RangesDecls |-> <<>>],
   addr |-> [u \in Units |-> {}], str |-> 0, loc |-> [k \in LocKeys |-> 0],
   top |-> <<>>, dwo |-> [u \in Units |-> <<>>], byCU |-> [k \in LocKeys |-> 0]]

\* processUnitDIE of unit u up to the first walk.
seqStartUnit(r, u) ==
  IF ~SplitCU[u] THEN r
  ELSE [r EXCEPT !.bases[u] = SectionOffsetOf(r.sec),
                 !.P[TopPatcher] = @ \o updateDWONameCompDir(u, r.str, opts.DwarfOutputPath),
                 !.str = strAfterNameCompDir(u, r.str, opts.DwarfOutputPath)]

\* convertToRanges(DIE, FunctionRanges, DebugInfoPatcher) of DIE i.
seqConvertToRanges(r, p, i, die, Ranges) ==
  [r EXCEPT !.P = convertDie(r.P, p, i, die, Ranges, r.sec, r.bases),
            !.sec = convertSection(r.sec, Ranges)]

\* The loop of convertPending over the entries of one declaration.
RECURSIVE seqPendingEntries(_, _, _)
seqPendingEntries(r, p, entries) ==
  IF entries = <<>> THEN r
  ELSE LET e == Head(entries)
       IN seqPendingEntries(seqConvertToRanges(r, p, e.die, DieAt(e.die), <<e.range>>),
                            p, Tail(entries))

\* convertPending(Abbrev, DebugInfoPatcher, AbbrevWriter)
seqConvertPending(r, p, d) ==
  IF d \in r.conv THEN r
  ELSE LET r1 == seqPendingEntries(
                   [r EXCEPT !.abbrev[d] = @ \o convertToRangesAbbrev(d, NoBase)],
                   p, r.pend[d])
       IN [r1 EXCEPT !.pend = erasePending(r1.pend, d), !.conv = @ \cup {d}]

\* The critical section for subprogram DIE i.
seqSubprogram(r, i, die) ==
  LET d == DeclOf(die)
      p == die.tbl
      Ranges == FunctionRangesOf(i, die.n)
  IN IF die.n > 1
       THEN seqConvertToRanges(seqConvertPending(r, p, d), p, i, die, Ranges)
     ELSE IF d \in r.conv
       THEN seqConvertToRanges(r, p, i, die, Ranges)
     ELSE [r EXCEPT !.pend = pendingAfterAdd(r.pend, i, die),
                    !.addr = pendingAddrTable(r.addr, i, die)]

\* The location-list DIE i of unit u, whose input data is ld; every unit is
\* processed with CUIndex 0, its split unit with its DWO id.
seqLocation(r, u, i, ld) ==
  LET CUIndex == IF SplitCU[u] THEN DwoKey(u) ELSE 0
      p == IF SplitCU[u] THEN u ELSE TopPatcher
      OutputLocListOffset ==
        IF ld.outcome = "translated" THEN addList(r.loc[CUIndex], ld.k)
        ELSE EmptyListTag
      deferred == deferredLocPatches(LocAttrOffsetOf(i), CUIndex, OutputLocListOffset, i)
  IN [r EXCEPT
        !.loc = IF ld.outcome = "translated"
                  THEN [r.loc EXCEPT ![CUIndex] = sizeAfterAddList(@, ld.k)]
                  ELSE r.loc,
        !.dwo = IF SplitCU[u] THEN [r.dwo EXCEPT ![u] = @ \o deferred] ELSE r.dwo,
        !.top = IF SplitCU[u] THEN r.top ELSE r.top \o deferred,
        !.P[p] = @ \o directLocPatches(LocAttrOffsetOf(i), OutputLocListOffset, i)]

\* The DIEs of unit u from the k-th on, in the order of their offsets.
RECURSIVE seqSubprograms(_, _, _)
seqSubprograms(r, u, k) ==
  IF k > Len(dies[u]) THEN r
  ELSE seqSubprograms(seqSubprogram(r, <<u, k>>, dies[u][k]), u, k + 1)
RECURSIVE seqLocations(_, _, _)
seqLocations(r, u, k) ==
  IF k > Len(locDies[u]) THEN r
  ELSE seqLocations(seqLocation(r, u, <<u, k>>, locDies[u][k]), u, k + 1)

\* The loop over the compile units, from unit u on.
RECURSIVE seqUnits(_, _)
seqUnits(r, u) ==
  IF u > NumUnits THEN r
  ELSE seqUnits(seqLocations(seqSubprograms(seqStartUnit(r, u), u, 1), u, 1), u + 1)

\* flushPendingRanges, the address-base patches and
\* makeFinalLocListsSection, each map visited in one of its orders.
seqFlush(r) ==
  LET keys == CHOOSE s \in KeyOrders({d \in Decls : r.pend[d] # <<>>}) : TRUE
  IN [r EXCEPT !.P = patchLowHighAll(r.P, entriesInOrder(r.pend, keys), dies, r.addr),
               !.pend = clearPending(r.pend)]
seqAddrBase(r) ==
  IF AddrInitialized(r.addr)
    THEN [r EXCEPT !.P[TopPatcher] = @ \o addrBasePatches(r.addr, DWOId, 1)]
    ELSE r
seqLocLists(r) ==
  LET keys == (0 .. NumCUsOf(FALSE, SplitCU) - 1)
                \cup {DwoKey(u) : u \in {v \in Units : SplitCU[v]}}
      written == CHOOSE w \in WrittenOrders[keys] : TRUE
      byCU == concatOffsets(written, r.loc, ReservedEmptyListSize, [k \in LocKeys |-> 0])
  IN [r EXCEPT !.byCU = byCU,
               !.P = [p \in PatcherIds |->
                        r.P[p] \o (IF p = TopPatcher THEN resolvedPatches(r.top, byCU)
                                   ELSE resolvedPatches(r.dwo[p], byCU))]]

\* What the single-threaded loop makes of the input the walks have read.
SequentialRun == seqLocLists(seqAddrBase(seqFlush(seqUnits(SeqStart, 1))))

\* ------------------------------------------------------------------ C25
\* The run was asked to be single-threaded.
SingleThreaded == opts.NoThreads \/ opts.DeterministicDebugInfo
\* The patches (offset, value) of one patch list.
PatchesOfList(list) == {list[k] : k \in 1 .. Len(list)}
\* The state holds what the pass r over the input holds; of the location-list
\* writers, those that hold a list have the same place in the section.
SameResult(r) ==
  /\ ConvertedRangesAbbrevs = r.conv
  /\ \A p \in PatcherIds : PatchesOfList(Patches[p]) = PatchesOfList(r.P[p])
  /\ AbbrevPatches = r.abbrev
  /\ RangesSection = r.sec
  /\ RangeBase = r.bases
  /\ AddrTable = r.addr
  /\ StrSection = r.str
  /\ LocWriterSize = r.loc
  /\ \A k \in LocKeys : r.loc[k] > 0 => SectionOffsetByCU[k] = r.byCU[k]

LoopLeft(u) == pc[u] \in {"break", "done"}
LogOf(u) == entryWalk[u].log
EntryOfTurn(u, j) == entryWalk[u].entries[LogOf(u)[j].k]
\* Turn j of the loop met a null entry that left the depth at zero.
NullAtZero(u, j) == EntryOfTurn(u, j).kind = "null" /\ LogOf(u)[j].after = 0
\* The depth was never positive up to turn j.
NeverPositive(u, j) == \A i \in 1 .. j : LogOf(u)[i].after = 0
\* No further entry can be had: the next one would start at or beyond the
\* unit's declared end, or the data holds no entry that can be extracted.
InputExhausted(u) ==
  LET w == entryWalk[u]
  IN \/ w.DIEOffset >= w.NextCUOffset
     \/ w.k = Len(w.entries)
     \/ w.entries[w.k + 1].kind = "bad"

\* C26 as stated, its last part: a null entry met at depth zero before the
\* depth ever became positive does not end the walk; the walk stops only
\* when the depth returns to zero after having gone positive or when the
\* input is exhausted.
C26_NullAtDepthZeroGoesOn ==
  \A u \in Units :
    (LoopLeft(u) /\ ~InputExhausted(u)) =>
      \E i \in 1 .. Len(LogOf(u)) : LogOf(u)[i].after > 0

\* C26, amended: the walk takes at most as many turns as the unit has bytes,
\* visits entries in strictly increasing offset order, each starting before
\* the unit's declared end; the depth starts at zero, goes up by one at an
\* entry whose declaration has children and down by one at a null entry met
\* at positive depth; the walk goes on after every entry but a null entry
\* that leaves the depth at zero, which is not dispatched, and it has stopped
\* only at such a null entry, whether or not the depth had been positive, or
\* with the input exhausted.
C26_WalkStopsAtDepthZeroOrEnd ==
  \A u \in Units :
    LET w == entryWalk[u]
        log == w.log
        n == Len(log)
    IN /\ n <= w.NextCUOffset - FirstEntryOffset(u)
       /\ \A j \in 1 .. n :
            /\ log[j].off < w.NextCUOffset
            /\ log[j].off >= FirstEntryOffset(u)
            /\ j < n => log[j].off < log[j + 1].off
            /\ log[j].before = (IF j = 1 THEN 0 ELSE log[j - 1].after)
            /\ log[j].after =
                 (IF EntryOfTurn(u, j).kind = "null"
                    THEN (IF log[j].before > 0 THEN log[j].before - 1 ELSE 0)
                  ELSE IF EntryOfTurn(u, j).children THEN log[j].before + 1
                  ELSE log[j].before)
            /\ log[j].dispatched <=> ~NullAtZero(u, j)
            /\ j < n => ~NullAtZero(u, j)
       /\ n > 0 /\ NullAtZero(u, n) => pc[u] \in {"break", "done"}
       /\ LoopLeft(u) => (n > 0 /\ NullAtZero(u, n)) \/ InputExhausted(u)
       /\ pc[u] = "break" => n > 0 /\ NullAtZero(u, n)

\* A walk ended by a null entry at depth zero, the depth never having been
\* positive, with a further entry of the unit left unvisited.
C26_Witness ==
  \E u \in Units :
    /\ pc[u] = "done" /\ ~InputExhausted(u)
    /\ Len(LogOf(u)) > 1
    /\ NullAtZero(u, Len(LogOf(u))) /\ NeverPositive(u, Len(LogOf(u)))
\* A walk ended by the null entry that closes the children of its first DIE.
C26_DepthReturned ==
  \E u \in Units :
    /\ pc[u] = "done"
    /\ Len(LogOf(u)) = 3
    /\ LogOf(u)[1].after = 1 /\ LogOf(u)[2].after = 1 /\ LogOf(u)[3].after = 0

\* ------------------------------------------------------------------ C28
\* The walk of unit u has run past the unit's declared end.
Overran(u) == entryWalk[u].DIEOffset > entryWalk[u].NextCUOffset
\* The diagnostics printed for unit u.
WarningsFor(u) == {j \in 1 .. Len(errs) : errs[j].unit = u}
\* The patches the switch recorded for the entries of unit u it was given.
RecordedForUnit(u) ==
  UNION {PatchesOfList(entryPatches(u, LogOf(u)[j].k, EntryOfTurn(u, j), LogOf(u)[j].off)) :
           j \in {i \in 1 .. Len(LogOf(u)) : LogOf(u)[i].dispatched}}
\* Unit u has been processed as a unit is: registered with the abbreviation
\* writer once, the patches of its entries in the patch list.
ProcessedNormally(u) ==
  /\ UnitAbbrevs[u] = 1
  /\ RecordedForUnit(u) \subseteq PatchesOfList(Patches[TopPatcher])

\* C28: a unit whose walk ran past the unit's declared end got one
\* diagnostic and the run was not ended; the unit's abbreviations were
\* registered exactly once, the patches recorded for it are in the patch
\* list, and every other unit that is finished, before or after it, was
\* processed as usual; no unit waits for anything but its turn.
C28_OverrunIsReportedNotFatal ==
  \A u \in Units :
    (pc[u] = "done" /\ Overran(u)) =>
      /\ Cardinality(WarningsFor(u)) = 1
      /\ Exit = "none" /\ phase = "units"
      /\ ProcessedNormally(u)
      /\ \A v \in Units :
           /\ pc[v] = "done" => ProcessedNormally(v)
           /\ pc[v] = "start" /\ MayStart(v) => ENABLED StartEntryWalk(v)
           /\ pc[v] = "walk" => ENABLED (WalkEntry(v) \/ FinishEntryWalk(v))

\* Unit 1 ran past its end at a DIE whose patch is kept, and the next unit
\* has been walked since and its patch recorded.
C28_Witness ==
  /\ pc[1] = "done" /\ Overran(1) /\ RecordedForUnit(1) # {}
  /\ Len(errs) = 1
  /\ pc[NumUnits] = "done" /\ ~Overran(NumUnits) /\ RecordedForUnit(NumUnits) # {}
  /\ Len(Patches[TopPatcher]) = 2

\* ------------------------------------------------------------------ C27
\* Task u is in, or past, the walk of the skeleton unit u.
InSkeletonWalk(u) ==
  /\ SplitCU[u] /\ ~walkDwo[u]
  /\ \/ pc[u] \in {"walk", "done"}
     \/ pc[u] = "patch" /\ "unit" \in appending[u].seen
\* Task u has not reached the walk of its split unit.
BeforeSplitWalk(u) ==
  SplitCU[u] /\ ~walkDwo[u] /\ ~InSkeletonWalk(u)
\* The ranges bases the calls queued for the unit DIE of skeleton u carry:
\* the value for a present DW_AT_GNU_ranges_base, or the value of the
\* attribute put in the place of DW_AT_low_pc.
BasesPassed(u, queue) ==
  {q.val : q \in {r \in UNION {PatchesOfList(queue[k].patches) : k \in 1 .. Len(queue)} :
                    \/ r.enc = "rangesBase"
                    \/ r.enc = "unitRanges" /\ r.kind = "UData"
                         /\ r.off = UnitLowPCOffsetOf(u) + 1}}

\* C27: in every schedule, for every unit with a loaded split unit: while
\* the task is in or past the skeleton's walk, the split unit's walk is over
\* and its location-list writer finalized, which happens at the end of that
\* walk and not before; from then on nothing of the split unit changes (its
\* patch list, its ranges base). The ranges base is captured once, before
\* the split unit's walk, as the ranges section's offset at that moment, and
\* the unit DIE of the skeleton is handed it exactly when the split unit's
\* patcher was asked for its ranges base.
C27_SplitUnitBeforeSkeleton ==
  [][\A u \in Units : SplitCU[u] =>
       /\ InSkeletonWalk(u)' => u \in LoclistFinalized'
       /\ (walkDwo[u]' \/ BeforeSplitWalk(u)') => u \notin LoclistFinalized'
       /\ (u \in LoclistFinalized' /\ u \notin LoclistFinalized) =>
            (walkDwo[u] /\ pc[u] = "walk" /\ InSkeletonWalk(u)')
       /\ u \in LoclistFinalized =>
            /\ Patches'[u] = Patches[u]
            /\ RangeBase'[u] = RangeBase[u]
            /\ ~walkDwo'[u]
       /\ RangeBase'[u] # RangeBase[u] =>
            /\ BeforeSplitWalk(u) /\ walkDwo'[u]
            /\ Patches[u] = <<>>
            /\ RangeBase'[u] = SectionOffsetOf(RangesSection)
       /\ ("unit" \in appending'[u].seen /\ "unit" \notin appending[u].seen) =>
            BasesPassed(u, appending'[u].queue) =
              (IF WasRangeBaseUsed(Patches, u) THEN {RangeBase[u]} ELSE {})
    ]_vars

\* The unit DIE of a skeleton has been handed the ranges base its finalized
\* split unit used, captured after another unit had added its ranges.
C27_Witness ==
  \E u \in Units :
    /\ InSkeletonWalk(u) /\ pc[u] = "done" /\ u \in LoclistFinalized
    /\ WasRangeBaseUsed(Patches, u)
    /\ RangeBase[u] > RangeEntrySize
    /\ \E q \in PatchesOfList(Patches[TopPatcher]) :
         q.die = UnitDie(u) /\ q.enc = "rangesBase" /\ q.val = RangeBase[u]
\* A skeleton whose split unit did not use its ranges base, walked without one.
C27_NotPassed ==
  \E u \in Units :
    /\ InSkeletonWalk(u) /\ pc[u] = "done" /\ ~WasRangeBaseUsed(Patches, u)
    /\ \E q \in PatchesOfList(Patches[TopPatcher]) : q.die = UnitDie(u) /\ q.enc = "unitRanges"

\* ------------------------------------------------------------------ C29
\* The step handles a subprogram DIE of unit u that has DW_AT_ranges.
HandlesRangesSubprogram(u) ==
  /\ Len(blockDies'[u]) = Len(blockDies[u]) + 1
  /\ blockDies'[u][Len(blockDies'[u])].tag = "DW_TAG_subprogram"
\* The patches the step adds to patcher p.
AddedPatches(p) ==
  {Patches'[p][k] : k \in Len(Patches[p]) + 1 .. Len(Patches'[p])}

HeaderPatchesFor(list, CU) ==
  {k \in 1 .. Len(list) : list[k].enc = "abbrevOffset" /\ list[k].die = UnitDie(CU.unit)}

\* The patch list a unit's header patch belongs to, and the other one.
OwnList(CU) == IF CU.type THEN DebugTypesPatcher.patches ELSE Patches[TopPatcher]
OtherList(CU) == IF CU.type THEN Patches[TopPatcher] ELSE DebugTypesPatcher.patches

\* C30: once finalizeDebugSections has gone over the non-split units, a unit
\* has a header patch if and only if its new abbreviation offset differs
\* from its original one; the patch is a single 4-byte patch at the unit's
\* offset + 6 carrying the new offset, recorded in the debug-info patch list
\* for a compile unit and in the debug-types patch list for a type unit,
\* and a unit whose offset did not change has no header patch in either.
C30_HeaderPatchedIffAbbrevOffsetChanged ==
  NormalUnits # <<>> =>
    \A n \in 1 .. Len(NormalUnits) :
      LET CU == NormalUnits[n]
          own == OwnList(CU)
      IN /\ HeaderPatchesFor(OtherList(CU), CU) = {}
         /\ (CU.new = CU.old) <=> (HeaderPatchesFor(own, CU) = {})
         /\ Cardinality(HeaderPatchesFor(own, CU)) <= 1
         /\ \A k \in HeaderPatchesFor(own, CU) :
              /\ own[k].kind = "LE32"
              /\ own[k].size = 4
              /\ own[k].off = CU.offset + 6
              /\ own[k].val = CU.new

\* The run is over; a compile unit and a type unit were patched, and a
\* compile unit and a type unit kept their abbreviation offset.
C30_Witness ==
  /\ phase = "done"
  /\ \E a, b, c, d \in 1 .. Len(NormalUnits) :
       /\ ~NormalUnits[a].type /\ NormalUnits[a].new # NormalUnits[a].old
       /\ ~NormalUnits[b].type /\ NormalUnits[b].new = NormalUnits[b].old
       /\ NormalUnits[c].type /\ NormalUnits[c].new # NormalUnits[c].old
       /\ NormalUnits[d].type /\ NormalUnits[d].new = NormalUnits[d].old
       /\ HeaderPatchesFor(Patches[TopPatcher], NormalUnits[a]) # {}
  /\ DebugTypesPatcher.registered
  /\ Len(DebugTypesPatcher.patches) = 1

\* ------------------------------------------------------------------ C31
\* The sum of the lengths of kind K recorded for the entries before the n-th.
RECURSIVE LengthsBefore(_, _, _)
LengthsBefore(entries, n, K) ==
  IF n <= 1 THEN 0
  ELSE LengthsBefore(entries, n - 1, K) + entries[n - 1].Contributions[K].Length

\* The sections of kind K in the file of split unit u.
SectionsOfKind(u, K) ==
  {k \in 1 .. Len(DWOSections[u]) :
     /\ KnownSections(DWOSections[u][k].name) = K
     /\ DWOSections[u][k].name # "debug_str.dwo"}

\* C31: in the package index, for every section kind a split unit
\* contributes to, the contribution offset recorded for the unit equals the
\* sum of the contribution lengths of that kind recorded for the units
\* emitted before it (so a contribution of another kind does not move the
\* cursor, and contributions of one kind are contiguous).
C31_OffsetIsSumOfEarlierLengths ==
  \A n \in 1 .. Len(PkgIndex) : \A K \in ContributionKinds :
    SectionsOfKind(PkgIndex[n].Signature, K) # {} =>
      PkgIndex[n].Contributions[K].Offset = LengthsBefore(PkgIndex, n, K)

\* The sizes of all sections of kind K of the emitted units together.
RECURSIVE SizesOfKind(_, _, _)
SizesOfKind(u, k, K) ==
  IF u > NumUnits THEN 0
  ELSE IF k > Len(DWOSections[u]) THEN SizesOfKind(u + 1, 1, K)
  ELSE (IF k \in SectionsOfKind(u, K) THEN DWOSections[u][k].size ELSE 0)
         + SizesOfKind(u, k + 1, K)

\* No file holds two sections of one kind, and the sections of one kind
\* fit a 32-bit cursor together.
OneSectionPerKind ==
  \A K \in ContributionKinds :
    /\ \A u \in Units : Cardinality(SectionsOfKind(u, K)) <= 1
    /\ SizesOfKind(1, 1, K) < U32Modulus

\* ... the offsets are the sums when every file holds at most one section
\* of a kind and the cursors do not wrap.
C31_WithOneSectionPerKind == OneSectionPerKind => C31_OffsetIsSumOfEarlierLengths

\* Two units are in the index, the second behind a contribution of the
\* first of the same kind and behind one of another kind.
C31_TwoContributions ==
  /\ OneSectionPerKind
  /\ Len(PkgIndex) = 2
  /\ PkgIndex[2].Contributions["DW_SECT_INFO"].Offset > 0
  /\ PkgIndex[1].Contributions["DW_SECT_EXT_TYPES"].Length > 0
  /\ PkgIndex[2].Contributions["DW_SECT_EXT_TYPES"].Length > 0

\* ------------------------------------------------------------------ C32
\* The address-index patches the end-of-run flush has recorded for the
\* DIEs of split unit u.
FlushedIndexPatches(u) ==
  {k \in 1 .. Len(Patches[u]) : Patches[u][k].enc = "lowhigh" /\ Patches[u][k].kind = "UData"}

\* C32: after the end-of-run flush, the index written into a pending
\* function DIE of a split unit whose low_pc is an address index is an
\* index the split unit's final address table maps to the DIE's output
\* low address, whatever the other DIEs of the unit have registered.
C32_FlushedIndexMapsToLowAddress ==
  phase = "flushed" =>
    \A u \in Units : \A k \in FlushedIndexPatches(u) :
      LET q == Patches[u][k]
      IN <<q.val, PendingRangeOf(q.die, DieAt(q.die)).LowPC>> \in AddrTable[u]

\* The case of a removed function with a DIE at its entry: the subprogram
\* has no output range and was flushed, the other DIE's address lies in no
\* function, and the address slot they share holds the input address.
C32_RemovedFunctionWithEntryDie ==
  /\ phase = "flushed"
  /\ \E u \in Units : \E k \in FlushedIndexPatches(u) :
       LET i == Patches[u][k].die
       IN /\ DieAt(i).n = 0
          /\ i[2] <= Len(lowpcDies[u])
          /\ ~lowpcDies[u][i[2]].found /\ lowpcDies[u][i[2]].dwo
          /\ <<IndexLOf(i), InputAddressOf(i)>> \in AddrTable[u]
          /\ <<Patches[u][k].val, 0>> \notin AddrTable[u]

\* No other DIE of a split unit has registered an address.
NoOtherRegistrations == \A u \in Units : \A k \in 1 .. Len(lowpcDies[u]) : ~lowpcDies[u][k].dwo

\* ... the index maps to the low address when only the pending DIEs
\* themselves have registered addresses.
C32_WithoutOtherRegistrations == NoOtherRegistrations => C32_FlushedIndexMapsToLowAddress

\* Two function DIEs of a split unit were flushed with an index.
C32_TwoFlushed ==
  /\ NoOtherRegistrations
  /\ \E u \in Units : Cardinality(FlushedIndexPatches(u)) = 2

\* ------------------------------------------------------------------ C33
\* The places in the patch lists that hold a range patch of subprogram DIE i.
RangePatchSlots(i) ==
  {s \in UNION {{<<p, k>> : k \in 1 .. Len(Patches[p])} : p \in PatcherIds} :
     /\ Patches[s[1]][s[2]].die = i
     /\ Patches[s[1]][s[2]].enc \in {"ranges", "lowhigh"}}

\* DIE i was given its range patches once: it has some, all of one
\* encoding and in one patch list, and no field of it was patched twice.
PatchedOnce(i) ==
  /\ RangePatchSlots(i) # {}
  /\ \A s, t \in RangePatchSlots(i) :
       /\ s[1] = t[1]
       /\ Patches[s[1]][s[2]].enc = Patches[t[1]][t[2]].enc
       /\ s # t => Patches[s[1]][s[2]].off # Patches[t[1]][t[2]].off

\* C33: at the end of the run every subprogram DIE that entered the
\* conversion state machine has been given its final range patches exactly
\* once: it is not left without a patch, not patched both by a conversion
\* and by the end-of-run flush, and not patched by two conversions.
C33_PatchedExactlyOnce == RunEnded => \A i \in SubprogramIds : PatchedOnce(i)

\* A subprogram of a unit that is no split unit was converted while the
\* task of a skeleton was inside its unlocked call on the same patch list,
\* and the run ended without a patch for the subprogram.
C33_PatchLostInRace ==
  /\ RunEnded
  /\ \E i \in SubprogramIds :
       /\ DieAt(i).tbl = TopPatcher
       /\ RangePatchSlots(i) = {}
  /\ \E k \in 1 .. Len(Patches[TopPatcher]) : Patches[TopPatcher][k].enc = "dwoName"

\* A run of two tasks that ended with a DIE converted by a conversion flush,
\* and one patched by the end-of-run flush.
C33_BothFlushes ==
  /\ RunEnded
  /\ \E i, j \in SubprogramIds :
       /\ i[1] # j[1]
       /\ PatchedOnce(i) /\ PatchedOnce(j)
       /\ Encodings(i) = {"ranges"} /\ Encodings(j) = {"lowhigh"}

\* ------------------------------------------------------------------ C34
\* The locks unit u's task holds.
HeldBy(u) ==
  {m \in {"CriticalSectionMutex", "DebugInfoPatcherMutex",
          "LocListDebugInfoPatchesMutex"} :
     \/ m = "CriticalSectionMutex" /\ CriticalSectionMutex = u
     \/ m = "DebugInfoPatcherMutex" /\ DebugInfoPatcherMutex = u
     \/ m = "LocListDebugInfoPatchesMutex" /\ LocListDebugInfoPatchesMutex = u}

\* Unit u's task takes the conversion critical section in this step.
TakesCriticalSection(u) ==
  CriticalSectionMutex # u /\ CriticalSectionMutex' = u

\* C34: the parallel phase never deadlocks and always finishes. No task
\* takes the conversion critical section while it holds the patch-list mutex
\* or the location-patch mutex; a task between two DIEs, and a task that
\* has run, holds no lock; every unit task runs to its end unless the process
\* was brought down, and once every task has run ThreadPool.wait returns
\* and the run goes on to the flush.
C34_NeverDeadlocksAndFinishes ==
  /\ [][\A u \in Units : TakesCriticalSection(u) => HeldBy(u) = {}]_vars
  /\ [](\A u \in Units : pc[u] \in {"walk", "done"} => HeldBy(u) = {})
  /\ <>(AllDone \/ phase = "exited")
  /\ (AllDone ~> phase # "units")

\* A task inside the critical section holds the patch-list mutex as well
\* while the other task holds the location-patch mutex.
C34_Witness ==
  \E u, v \in Units :
    /\ u # v
    /\ HeldBy(u) = {"CriticalSectionMutex", "DebugInfoPatcherMutex"}
    /\ HeldBy(v) = {"LocListDebugInfoPatchesMutex"}

\* Every task has run and the flush has taken place.
C34_Finished == AllDone /\ phase = "flushed"

\* ===================================================================== C35
\* The DIEs of split units that were given a ranges offset.
SplitRangeDieIds ==
  {i \in RangeDieIds(blockDies) : RangeDieAt(blockDies, i).tbl # TopPatcher}
\* DIE i's absolute ranges offset is not below the ranges base of its split
\* unit, and the value patched into the DIE, base added back, is that offset.
StoredRelativeToBase(i) ==
  LET die == RangeDieAt(blockDies, i)
  IN /\ die.off >= RangeBase[die.tbl]
     /\ ObjectRangesOffsetsIn(Patches, RangeBase, i, die) = {die.off}

\* C35: every ranges offset patched into a DIE of a split unit is stored
\* relative to the split unit's ranges base, and the subtraction never
\* underflows: every absolute offset used for such a DIE, the shared
\* empty-ranges offset and an offset reused for an equal list included, is
\* at least the base captured before the split unit's walk started.
C35_OffsetNotBelowBase ==
  \A i \in SplitRangeDieIds : StoredRelativeToBase(i)

\* C35 for the DIEs that were given the offset of a stored list.
C35_ForStoredLists ==
  \A i \in SplitRangeDieIds :
    RangeDieAt(blockDies, i).off # EmptyRangesOffset => StoredRelativeToBase(i)

\* A DIE of a split unit was given the shared empty-ranges offset.
C35_EmptyOffsetInSplitUnit ==
  \E i \in SplitRangeDieIds : RangeDieAt(blockDies, i).off = EmptyRangesOffset

\* A block of a split unit was given the offset an equal list of an earlier
\* block had been stored at.
C35_ReusedOffsetInSplitUnit ==
  \E i, j \in SplitRangeDieIds :
    /\ i[1] = j[1] /\ i[2] < j[2]
    /\ RangeDieAt(blockDies, i).off = RangeDieAt(blockDies, j).off
    /\ RangeDieAt(blockDies, i).off # EmptyRangesOffset

\* ===================================================================== C36
\* The patch list of the unit DIE i belongs to: the walk of a skeleton
\* visits the DIEs of its split unit, the unit DIE <<u, 0>> of a skeleton
\* lies in the top-level section.
OwnPatcherOf(i) == IF SplitCU[i[1]] /\ i[2] >= 1 THEN i[1] ELSE TopPatcher
PatchesIn(p) == {Patches[p][k] : k \in 1 .. Len(Patches[p])}

\* C36: every patch produced for a DIE of a split unit, during the walk,
\* during a conversion flush or during the end-of-run flush of the pending
\* entries, is recorded in that split unit's own patch list, and the
\* top-level list receives patches of DIEs of top-level units only.
C36_PatchesInOwnList ==
  \A p \in PatcherIds : \A q \in PatchesIn(p) : OwnPatcherOf(q.die) = p

\* The end-of-run flush, handed the top-level list, has patched a DIE of a
\* split unit low/high, and a DIE of a top-level unit as well.
C36_Witness ==
  /\ phase = "flushed"
  /\ \E u \in Units :
       SplitCU[u] /\ \E q \in PatchesIn(u) : q.enc = "lowhigh"
  /\ \E q \in PatchesIn(TopPatcher) : q.enc = "lowhigh"

\* A conversion flush has converted a pending DIE of a split unit and the
\* DIE that forced the conversion.
C36_ConvertedInSplitUnit ==
  \E u \in Units :
    /\ SplitCU[u]
    /\ Cardinality({q.die : q \in {r \in PatchesIn(u) : r.enc = "ranges"}}) = 2

\* C36 for split units whose low_pc is an address index.
C36_WithIndexedLowPC ==
  SplitLowPCForm = "DW_FORM_GNU_addr_index" => C36_PatchesInOwnList

\* C36 for the patches of the walks and of the conversion flushes.
C36_BeforeTheFlush == phase = "units" => C36_PatchesInOwnList

\* The end-of-run flush has patched a DIE of a split unit, whose low_pc is
\* an address, into the top-level list.
C36_SplitDieInTopLevelList ==
  /\ phase = "flushed"
  /\ \E q \in PatchesIn(TopPatcher) :
       q.enc = "lowhigh" /\ OwnPatcherOf(q.die) # TopPatcher

\* ===================================================================== C37
\* The converted subprogram DIEs whose function has no output range.
ConvertedZeroRangeIds ==
  {i \in SubprogramIds : /\ DieAt(i).n = 0
                         /\ "ranges" \in Encodings(i)}

\* C37: a low/high-encoded function with zero output ranges whose
\* declaration ends converted is patched with the shared empty-ranges
\* offset, whether its DIE was deferred as pending and then flushed by the
\* conversion or converted directly; the order of the visits does not change
\* the offset it references.
C37_ZeroRangesGetEmptyOffset ==
  \A i \in ConvertedZeroRangeIds :
    RangesOffsetsIn(Patches, RangeBase, i) = {EmptyRangesOffset}

\* A DIE of a top-level unit that convertToRanges converts directly, its
\* function without output ranges, is given the empty-ranges offset.
C37_ConvertedDirectly ==
  [][\A u \in Units :
       (/\ pc[u] = "convertToRanges" /\ pc'[u] # "convertToRanges"
        /\ CurDie(u).n = 0 /\ CurDie(u).tbl = TopPatcher)
         => RangesOffsetsIn(Patches', RangeBase', CurId(u)) = {EmptyRangesOffset}]_vars

\* A DIE of a top-level unit without output ranges was converted directly.
C37_DirectReached ==
  \E i \in ConvertedZeroRangeIds :
    /\ DieAt(i).tbl = TopPatcher
    /\ RangesOffsetsIn(Patches, RangeBase, i) = {EmptyRangesOffset}

\* A DIE of a top-level unit without output ranges was deferred, then
\* flushed by convertPending with the default range it was deferred with:
\* it references a list of its own that holds that one range.
C37_PendingGetsOwnList ==
  \E i \in ConvertedZeroRangeIds :
    /\ DieAt(i).tbl = TopPatcher
    /\ \E o \in RangesOffsetsIn(Patches, RangeBase, i) :
         o # EmptyRangesOffset /\ ListAt(RangesSection, o) = <<DefaultRange>>

\* ===================================================================== C38
\* Two tasks are inside conflicting calls on the map.
RacingOn(map) ==
  \E u, v \in Units :
    /\ u # v
    /\ mapAccess[u].map = map
    /\ Conflict(mapAccess[u], mapAccess[v])
    /\ HeldBy(u) = {} /\ HeldBy(v) = {}

\* C38: while the unit tasks run, no shared bookkeeping map is read or
\* written by two tasks at the same time without a lock: not the DWO-name
\* dedup map, not the map from DWO id to name, and not the map of the
\* per-unit location-list writers, into which a task inserts its split
\* unit's writer while other tasks look their own writer up.
C38_NoUnlockedConcurrentAccess ==
  \A map \in {"NameToIndexMap", "DWOIdToName", "LocListWritersByCU"} : ~RacingOn(map)

\* C38 for a run with threads disabled.
C38_Sequential == ~parallel => C38_NoUnlockedConcurrentAccess

\* Two tasks advance the index of a name in NameToIndexMap at a time.
C38_NameIndexRace ==
  \E u, v \in Units :
    u # v /\ mapAccess[u].map = "NameToIndexMap" /\ mapAccess[v].map = "NameToIndexMap"

\* A task stores a name in DWOIdToName while another looks its DWO id up.
C38_IdToNameRace ==
  \E u, v \in Units :
    /\ pc[u] = "storeName" /\ mapAccess[u] # NoAccess
    /\ pc[v] = "findName" /\ mapAccess[v] # NoAccess

\* A task inserts its split unit's writer in LocListWritersByCU while the
\* task of another unit looks its own writer up.
C38_WriterInsertRace ==
  \E u, v \in Units :
    /\ pc[u] = "insertWriter" /\ mapAccess[u] # NoAccess
    /\ pc[v] = "lookupWriter" /\ mapAccess[v] # NoAccess /\ ~SplitCU[v]

\* Two skeletons of one input name were given the same output name, the
\* index having been advanced once only.
C38_SameOutputName ==
  \E u, v \in Units :
    /\ u # v /\ opts.DwarfOutputPath
    /\ NamesOfId(DWOIdToName, u) # {}
    /\ NamesOfId(DWOIdToName, u) = NamesOfId(DWOIdToName, v)

====
